---- MODULE Spec2Model ----
(***************************************************************************)
(* The AI provider abstraction of easy-gate: the provider adapters         *)
(* (OpenAI, Gemini, Claude, GLM, Grok), the shared error handling of       *)
(* BaseProvider, and the orchestration service AIService.                  *)
(*                                                                         *)
(* Representation of JavaScript values.                                    *)
(*   - A string on which the code does text work (error messages, response *)
(*     content, API keys) is a sequence of fragments.  '' is << >>,        *)
(*     concatenation is \o, s.includes(f) is "f is one of the fragments".  *)
(*     The fragments are atoms: none of the patterns handleError looks     *)
(*     for straddles two fragments or is part of another fragment.         *)
(*   - undefined / null is the value `undefined`, which is no text.        *)
(*   - A model name is a TLA+ string; "" stands for '' and for undefined,  *)
(*     which the code never tells apart (options?.model || ...).           *)
(***************************************************************************)
EXTENDS Integers, Sequences, FiniteSets, TLC

VARIABLES
    settings,   \* AIService.settings (AISettings), replaced as a whole by updateSettings
    pc,         \* position of the operation in progress: "idle", "awaiting", "done"
    call,       \* the public operation in progress and what it dispatched
    http,       \* how the outbound requestUrl call of the operation settled
    result,     \* what the operation handed back across its public boundary
    httpCalls,  \* outbound HTTP calls issued by the operation in progress
    synthesis,  \* GateView.runMultiSourceAnalysis: the locals of the run in progress
    vault,      \* paths of the notes that exist in the vault
    notices,    \* texts shown by showError during the operation in progress
    store,      \* the settings objects: which object the plugin and the service hold
    modal,      \* ProcessModal: its fields, its buttons, its pending calls
    wire,       \* the request an adapter handed to requestUrl
    plugin,     \* OpenGatePlugin: settings.gates and the gates registered so far
    progress    \* InlineProgress: its steps and its percentage

\* everything outside the adapters and the orchestration service
pluginVars == <<wire, plugin, progress>>

viewVars == <<synthesis, vault, notices, store, modal, pluginVars>>

vars == <<settings, pc, call, http, result, httpCalls, synthesis, vault, notices,
          store, modal, wire, plugin, progress>>

(***************************************************************************)
(* Bounds of the model.                                                    *)
(***************************************************************************)
\* Longest error text, in fragments, that the transport throws.
MaxMsgLen == 2
\* Most providers that have an entry in settings.apiKeys at one time.
MaxConfigured == 1

undefined == <<"undefined">>

Includes(text, fragment) == \E i \in DOMAIN text : text[i] = fragment

\* All texts of at most n fragments drawn from S.
TextsOver(S, n) == UNION {[1..k -> S] : k \in 0..n}

(***************************************************************************)
(* types.ts                                                                *)
(***************************************************************************)
Providers == {"gemini", "grok", "claude", "openai", "glm"}

AI_PROVIDERS ==
    [gemini |-> [name |-> "Google Gemini",    defaultModel |-> "gemini-2.5-flash"],
     grok   |-> [name |-> "xAI Grok",         defaultModel |-> "grok-4-1-fast"],
     claude |-> [name |-> "Anthropic Claude", defaultModel |-> "claude-sonnet-4-5-20241022"],
     openai |-> [name |-> "OpenAI",           defaultModel |-> "gpt-5"],
     glm    |-> [name |-> "Zhipu AI (GLM)",   defaultModel |-> "glm-4.6"]]

DEFAULT_AI_SETTINGS ==
    [provider       |-> "gemini",
     apiKeys        |-> [p \in Providers |-> undefined],
     models         |-> [p \in Providers |-> AI_PROVIDERS[p].defaultModel],
     useCustomModel |-> FALSE,
     customModel    |-> ""]

\* tokensUsed: undefined is written NoTokens
NoTokens == -1

\* AIProviderResponse; every field is always written, an absent one as undefined
Success(content, tokensUsed) ==
    [success |-> TRUE, content |-> content, tokensUsed |-> tokensUsed,
     error |-> undefined, errorCode |-> undefined]

Failure(error, errorCode) ==
    [success |-> FALSE, content |-> << >>, tokensUsed |-> NoTokens,
     error |-> error, errorCode |-> errorCode]

(***************************************************************************)
(* Values thrown in the code: [type, message].  type is "Error" for an     *)
(* Error instance, "string" for a thrown string, "object" for anything     *)
(* else (message is then undefined).                                       *)
(***************************************************************************)
ErrorValue(message) == [type |-> "Error", message |-> message]
StringValue(s)      == [type |-> "string", message |-> s]
ObjectValue         == [type |-> "object", message |-> undefined]

\* the engine's TypeError on reading a property of null / undefined
TypeError == ErrorValue(<<"Cannot read properties of undefined">>)
\* encodeURIComponent on a string holding a lone surrogate
URIError  == ErrorValue(<<"URI malformed">>)

(***************************************************************************)
(* BaseProvider.ts                                                         *)
(***************************************************************************)
\* The outcome of requestUrl, as makeRequest hands it on:
\* [threw, error, json].  An Error is wrapped, anything else rethrown as is;
\* json is read only when nothing was thrown.
makeRequest(outcome) ==
    IF outcome.kind = "throw"
    THEN IF outcome.error.type = "Error"
         THEN [threw |-> TRUE, json |-> outcome.body,
               error |-> ErrorValue(<<"API request failed: ">> \o outcome.error.message)]
         ELSE [threw |-> TRUE, json |-> outcome.body, error |-> outcome.error]
    ELSE [threw |-> FALSE, json |-> outcome.body, error |-> outcome.error]

handleError_RateLimitFirst(error) ==
    LET errorMessage ==
            IF error.type = "Error" THEN error.message
            ELSE IF error.type = "string" THEN error.message
            ELSE <<"Unknown error occurred">>
    IN  IF Includes(errorMessage, "429") \/ Includes(errorMessage, "rate limit")
        THEN Failure(<<"Rate limit exceeded. Please wait a moment and try again.">>,
                     <<"RATE_LIMIT">>)
        ELSE IF Includes(errorMessage, "401") \/ Includes(errorMessage, "Unauthorized")
        THEN Failure(<<"Invalid API key. Please check your API key in settings.">>,
                     <<"UNAUTHORIZED">>)
        ELSE IF Includes(errorMessage, "timeout") \/ Includes(errorMessage, "ETIMEDOUT")
        THEN Failure(<<"Request timed out. Please try again.">>, <<"TIMEOUT">>)
        ELSE Failure(errorMessage, <<"UNKNOWN">>)

handleError(error) ==
    LET errorMessage ==
            IF error.type = "Error" THEN error.message
            ELSE IF error.type = "string" THEN error.message
            ELSE <<"Unknown error occurred">>
    IN  IF Includes(errorMessage, "401") \/ Includes(errorMessage, "Unauthorized")
        THEN Failure(<<"Invalid API key. Please check your API key in settings.">>,
                     <<"UNAUTHORIZED">>)
        ELSE IF Includes(errorMessage, "429") \/ Includes(errorMessage, "rate limit")
        THEN Failure(<<"Rate limit exceeded. Please wait a moment and try again.">>,
                     <<"RATE_LIMIT">>)
        ELSE IF Includes(errorMessage, "timeout") \/ Includes(errorMessage, "ETIMEDOUT")
        THEN Failure(<<"Request timed out. Please try again.">>, <<"TIMEOUT">>)
        ELSE Failure(errorMessage, <<"UNKNOWN">>)

(***************************************************************************)
(* Vendor JSON payloads (response.json).  A payload carries the fields the *)
(* adapters read: error, the response containers choices / candidates /    *)
(* content / data, and the usage blocks.  A field that is missing or null  *)
(* has present = FALSE.                                                    *)
(***************************************************************************)
NoErrorObj == [present |-> FALSE, message |-> undefined, code |-> undefined,
               status |-> undefined, type |-> undefined]

ErrorObj(message, code, status, type) ==
    [present |-> TRUE, message |-> message, code |-> code,
     status |-> status, type |-> type]

NoContainer      == [present |-> FALSE, items |-> << >>]
Container(items) == [present |-> TRUE, items |-> items]

NoUsage == [present |-> FALSE, total_tokens |-> 0, input_tokens |-> 0, output_tokens |-> 0]
NoUsageMetadata == [present |-> FALSE, totalTokenCount |-> 0]

JsonNull ==
    [isNull |-> TRUE, error |-> NoErrorObj, choices |-> NoContainer,
     candidates |-> NoContainer, content |-> NoContainer, data |-> NoContainer,
     usage |-> NoUsage, usageMetadata |-> NoUsageMetadata]

EmptyBody == [JsonNull EXCEPT !.isNull = FALSE]

\* The container field an adapter operation reads.
ContainerField(p, op) ==
    IF p = "openai" /\ op = "testApiKey" THEN "data"
    ELSE IF p = "gemini" THEN "candidates"
    ELSE IF p = "claude" THEN "content"
    ELSE "choices"

(***************************************************************************)
(* The payloads the model draws from.                                      *)
(***************************************************************************)
\* Structured vendor errors, each with the HTTP status it is sent under.
VendorErrors ==
    { [status |-> 401, error |-> ErrorObj(<<"Incorrect API key provided">>,
                                          <<"invalid_api_key">>, undefined,
                                          <<"invalid_request_error">>)],
      [status |-> 429, error |-> ErrorObj(<<"Rate limit reached for requests">>,
                                          <<"rate_limit_exceeded">>, undefined,
                                          <<"requests">>)],
      [status |-> 401, error |-> ErrorObj(<<"API key not valid">>,
                                          <<"401">>, <<"UNAUTHENTICATED">>, undefined)],
      [status |-> 429, error |-> ErrorObj(<<"Resource has been exhausted">>,
                                          <<"429">>, <<"RESOURCE_EXHAUSTED">>, undefined)],
      [status |-> 401, error |-> ErrorObj(<<"invalid x-api-key">>,
                                          undefined, undefined, <<"authentication_error">>)],
      [status |-> 429, error |-> ErrorObj(<<"429", " rate limit">>,
                                          undefined, undefined, <<"rate_limit_error">>)],
      [status |-> 401, error |-> ErrorObj(<<"401", " Unauthorized">>,
                                          <<"1002">>, undefined, undefined)],
      [status |-> 200, error |-> ErrorObj(<<"The model is overloaded">>,
                                          <<"UNKNOWN">>, <<"UNKNOWN">>, <<"UNKNOWN">>)],
      [status |-> 200, error |-> ErrorObj(undefined, undefined, undefined, undefined)] }

\* choices[] of the OpenAI-shaped vendors: {message: {content}}
Choice(content) == [message |-> [present |-> TRUE, content |-> content]]
ChoiceNoMessage == [message |-> [present |-> FALSE, content |-> undefined]]

\* candidates[] of Gemini: {content: {parts: [{text}]}}
Candidate(parts)   == [content |-> [present |-> TRUE, parts |-> parts]]
CandidateNoContent == [content |-> [present |-> FALSE, parts |-> << >>]]

\* content[] of Claude: {type, text}
Block(type, text) == [type |-> type, text |-> text]

ContainerSamples(field) ==
    {NoContainer, Container(<< >>)} \cup
    IF field = "choices"
    THEN { Container(<<Choice(<<"Hi">>)>>), Container(<<Choice(<< >>)>>),
           Container(<<Choice(undefined)>>), Container(<<ChoiceNoMessage>>),
           Container(<<Choice(<< >>), Choice(<<"Hi">>)>>) }
    ELSE IF field = "candidates"
    THEN { Container(<<Candidate(<< [text |-> <<"Hi">>] >>)>>),
           Container(<<Candidate(<< [text |-> <<"Hi">>], [text |-> <<"!">>] >>)>>),
           Container(<<Candidate(<< [text |-> << >>] >>)>>),
           Container(<<Candidate(<< >>)>>),
           Container(<<CandidateNoContent>>) }
    ELSE IF field = "content"
    THEN { Container(<<Block("text", <<"Hi">>)>>),
           Container(<<Block("text", <<"Hi">>), Block("text", <<"!">>)>>),
           Container(<<Block("text", << >>)>>),
           Container(<<Block("tool_use", undefined)>>),
           Container(<<Block("tool_use", undefined), Block("text", <<"Hi">>)>>) }
    ELSE { Container(<< [id |-> "gpt-5"] >>) }

UsageSamples ==
    { [usage |-> NoUsage, usageMetadata |-> NoUsageMetadata],
      [usage |-> [present |-> TRUE, total_tokens |-> 12, input_tokens |-> 5,
                  output_tokens |-> 7],
       usageMetadata |-> [present |-> TRUE, totalTokenCount |-> 12]] }

\* The JSON outcomes of the call of operation op of adapter p: the payload
\* and the HTTP status it came with.
JsonOutcomes(p, op) ==
    LET field == ContainerField(p, op) IN
    { [kind |-> "json", status |-> 200, error |-> ObjectValue, body |-> JsonNull] }
    \cup
    { [kind |-> "json", status |-> 200, error |-> ObjectValue,
       body |-> [EmptyBody EXCEPT ![field] = c, !.usage = u.usage,
                                  !.usageMetadata = u.usageMetadata]] :
        c \in ContainerSamples(field), u \in UsageSamples }
    \cup
    { [kind |-> "json", status |-> e.status, error |-> ObjectValue,
       body |-> [EmptyBody EXCEPT ![field] = c, !.error = e.error]] :
        e \in VendorErrors, c \in {NoContainer, CHOOSE x \in ContainerSamples(field) :
                                                  x.present /\ Len(x.items) = 1} }

\* Fragments of the texts the transport throws.
MsgFragments == {"401", "Unauthorized", "429", "rate limit", "timeout", "ETIMEDOUT",
                 "Request failed"}

ThrownTexts == TextsOver(MsgFragments, MaxMsgLen)

\* requestUrl throws: an Error, a string, or some other value.
ThrowOutcomes ==
    { [kind |-> "throw", status |-> 0, error |-> ErrorValue(m), body |-> JsonNull] :
        m \in ThrownTexts }
    \cup
    { [kind |-> "throw", status |-> 0, error |-> StringValue(m), body |-> JsonNull] :
        m \in ThrownTexts }
    \cup
    { [kind |-> "throw", status |-> 0, error |-> ObjectValue, body |-> JsonNull] }

HttpOutcomes(p, op) == JsonOutcomes(p, op) \cup ThrowOutcomes

NoHttp == [kind |-> "none", status |-> 0, error |-> ObjectValue, body |-> JsonNull]

(***************************************************************************)
(* The adapters.  Each generateText is an async function that suspends at  *)
(* one point, the await of makeRequest.  <Adapter>_generateText(outcome)   *)
(* is what the function returns once requestUrl has settled with outcome;  *)
(* what it does before the call is AdapterRequest below.                   *)
(***************************************************************************)
RECURSIVE Join(_)
\* parts.join('')
Join(texts) == IF texts = << >> THEN << >> ELSE Head(texts) \o Join(Tail(texts))

\* blocks.filter(block => block.type === 'text').map(block => block.text)
RECURSIVE TextBlocks(_)
TextBlocks(blocks) ==
    IF blocks = << >> THEN << >>
    ELSE IF Head(blocks).type = "text"
         THEN <<Head(blocks).text>> \o TextBlocks(Tail(blocks))
         ELSE TextBlocks(Tail(blocks))

\* response.usage?.total_tokens
TotalTokens(body) == IF body.usage.present THEN body.usage.total_tokens ELSE NoTokens

OpenAIProvider_generateText(outcome) ==
    LET r == makeRequest(outcome)
        response == r.json
    IN  IF r.threw THEN handleError(r.error)
        ELSE IF response.isNull THEN handleError(TypeError)
        ELSE IF response.error.present
        THEN Failure(response.error.message, response.error.code)
        ELSE IF ~response.choices.present \/ Len(response.choices.items) = 0
        THEN Failure(<<"No response generated">>, undefined)
        ELSE IF ~response.choices.items[1].message.present THEN handleError(TypeError)
        ELSE Success(response.choices.items[1].message.content, TotalTokens(response))

GeminiProvider_generateText(outcome) ==
    LET r == makeRequest(outcome)
        response == r.json
    IN  IF r.threw THEN handleError(r.error)
        ELSE IF response.isNull THEN handleError(TypeError)
        ELSE IF response.error.present
        THEN Failure(response.error.message, response.error.status)
        ELSE IF ~response.candidates.present \/ Len(response.candidates.items) = 0
        THEN Failure(<<"No response generated">>, undefined)
        ELSE IF ~response.candidates.items[1].content.present THEN handleError(TypeError)
        ELSE Success(Join([i \in DOMAIN response.candidates.items[1].content.parts |->
                              response.candidates.items[1].content.parts[i].text]),
                     IF response.usageMetadata.present
                     THEN response.usageMetadata.totalTokenCount ELSE NoTokens)

\* block.text of a block that has none joins as ''
ClaudeText(t) == IF t = undefined THEN << >> ELSE t

ClaudeProvider_generateText(outcome) ==
    LET r == makeRequest(outcome)
        response == r.json
    IN  IF r.threw THEN handleError(r.error)
        ELSE IF response.isNull THEN handleError(TypeError)
        ELSE IF response.error.present
        THEN Failure(response.error.message, response.error.type)
        ELSE IF ~response.content.present \/ Len(response.content.items) = 0
        THEN Failure(<<"No response generated">>, undefined)
        ELSE LET texts == TextBlocks(response.content.items)
             IN  Success(Join([i \in DOMAIN texts |-> ClaudeText(texts[i])]),
                         IF response.usage.present
                         THEN response.usage.input_tokens + response.usage.output_tokens
                         ELSE NoTokens)

GLMProvider_generateText(outcome) ==
    LET r == makeRequest(outcome)
        response == r.json
    IN  IF r.threw THEN handleError(r.error)
        ELSE IF response.isNull THEN handleError(TypeError)
        ELSE IF response.error.present
        THEN Failure(response.error.message, response.error.code)
        ELSE IF ~response.choices.present \/ Len(response.choices.items) = 0
        THEN Failure(<<"No response generated">>, undefined)
        ELSE IF ~response.choices.items[1].message.present THEN handleError(TypeError)
        ELSE Success(response.choices.items[1].message.content, TotalTokens(response))

\* The Grok adapter: OpenAI-shaped wire format, outcomes as the adapter
\* contract states them (a classified failure for every error, no_response
\* for an empty or missing container or an empty text).
GrokProvider_generateText(outcome) ==
    LET r == makeRequest(outcome)
        response == r.json
    IN  IF r.threw THEN handleError(r.error)
        ELSE IF response.isNull THEN Failure(<<"No response generated">>, <<"NO_RESPONSE">>)
        ELSE IF response.error.present
        THEN handleError(IF response.error.message = undefined THEN ObjectValue
                         ELSE StringValue(response.error.message))
        ELSE IF \/ ~response.choices.present
                \/ Len(response.choices.items) = 0
                \/ ~response.choices.items[1].message.present
                \/ response.choices.items[1].message.content \in {undefined, << >>}
        THEN Failure(<<"No response generated">>, <<"NO_RESPONSE">>)
        ELSE Success(response.choices.items[1].message.content, TotalTokens(response))

AdapterGenerateText(p, outcome) ==
    CASE p = "openai" -> OpenAIProvider_generateText(outcome)
      [] p = "gemini" -> GeminiProvider_generateText(outcome)
      [] p = "claude" -> ClaudeProvider_generateText(outcome)
      [] p = "glm"    -> GLMProvider_generateText(outcome)
      [] p = "grok"   -> GrokProvider_generateText(outcome)

(***************************************************************************)
(* testApiKey of each adapter, once requestUrl has settled with outcome.   *)
(* The whole body is inside try/catch: anything thrown gives false.        *)
(***************************************************************************)
OpenAIProvider_testApiKey(outcome) ==
    LET r == makeRequest(outcome)
        response == r.json
    IN  IF r.threw \/ response.isNull THEN FALSE
        ELSE response.data.present /\ ~response.error.present

GeminiProvider_testApiKey_ErrorOrCandidates(outcome) ==
    LET r == makeRequest(outcome)
        response == r.json
    IN  IF r.threw \/ response.isNull THEN FALSE
        ELSE ~response.error.present \/ response.candidates.present

GeminiProvider_testApiKey(outcome) ==
    LET r == makeRequest(outcome)
        response == r.json
    IN  IF r.threw \/ response.isNull THEN FALSE
        ELSE ~response.error.present /\ response.candidates.present

ClaudeProvider_testApiKey(outcome) ==
    LET r == makeRequest(outcome)
        response == r.json
    IN  IF r.threw \/ response.isNull THEN FALSE
        ELSE ~response.error.present /\ response.content.present

GLMProvider_testApiKey(outcome) ==
    LET r == makeRequest(outcome)
        response == r.json
    IN  IF r.threw \/ response.isNull THEN FALSE
        ELSE ~response.error.present /\ response.choices.present

\* Grok: no error and a recognizable non-empty response container.
GrokProvider_testApiKey(outcome) ==
    LET r == makeRequest(outcome)
        response == r.json
    IN  IF r.threw \/ response.isNull THEN FALSE
        ELSE /\ ~response.error.present
             /\ response.choices.present
             /\ Len(response.choices.items) > 0

AdapterTestApiKey(p, outcome) ==
    CASE p = "openai" -> OpenAIProvider_testApiKey(outcome)
      [] p = "gemini" -> GeminiProvider_testApiKey(outcome)
      [] p = "claude" -> ClaudeProvider_testApiKey(outcome)
      [] p = "glm"    -> GLMProvider_testApiKey(outcome)
      [] p = "grok"   -> GrokProvider_testApiKey(outcome)

(***************************************************************************)
(* GLMProvider.generateToken.  An API key is a text over KeyChars; the     *)
(* fragment "\\uD800" is a lone surrogate, on which encodeURIComponent     *)
(* (called by base64UrlEncode) throws URIError.                            *)
(***************************************************************************)
KeyChars == {"k", ":", ".", " ", "\\uD800"}

\* apiKey.split(':')
RECURSIVE Split(_)
Split(s) ==
    IF s = << >> THEN << << >> >>
    ELSE LET rest == Split(Tail(s))
         IN  IF Head(s) = ":" THEN << << >> >> \o rest
             ELSE << <<Head(s)>> \o rest[1] >> \o Tail(rest)

\* base64 of one character, '=' padding removed
B64 == [c \in KeyChars |->
           CASE c = "k" -> "aw" [] c = ":" -> "Og" [] c = "." -> "Lg"
             [] c = " " -> "IA" [] OTHER -> "?"]

\* base64UrlEncode(str): [threw, value]
base64UrlEncode(str) ==
    IF Includes(str, "\\uD800") THEN [threw |-> TRUE, value |-> undefined]
    ELSE [threw |-> FALSE, value |-> [i \in DOMAIN str |-> B64[str[i]]]]

\* generateToken(apiKey): [threw, token].  The header is a constant, the
\* payload carries the key id and the clock.
generateToken(apiKey) ==
    IF Includes(apiKey, ".") THEN [threw |-> FALSE, token |-> apiKey]
    ELSE LET parts  == Split(apiKey)
             id     == parts[1]
             secret == IF Len(parts) >= 2 THEN parts[2] ELSE undefined
         IN  IF id = << >> \/ secret = undefined \/ secret = << >>
             THEN [threw |-> FALSE, token |-> apiKey]
             ELSE LET header    == <<"eyJhbGciOiJIUzI1NiIsInNpZ25fdHlwZSI6IlNJR04ifQ">>
                      \* JSON.stringify escapes a lone surrogate: encoding the
                      \* payload never throws
                      payload   == <<"{api_key:">> \o [i \in DOMAIN id |-> B64[id[i]]]
                                   \o <<",exp,timestamp}">>
                      signature == base64UrlEncode(secret)
                  IN  IF signature.threw
                      THEN [threw |-> TRUE, token |-> undefined]
                      ELSE [threw |-> FALSE,
                            token |-> header \o <<".">> \o payload \o <<".">>
                                      \o signature.value]

(***************************************************************************)
(* What an adapter does before its requestUrl call: [threw, model,         *)
(* credential].  threw: an exception left the function before the call.    *)
(***************************************************************************)
\* options?.model || this.config.defaultModel
WireModel(p, optModel) == IF optModel # "" THEN optModel ELSE AI_PROVIDERS[p].defaultModel

\* generateText up to its await.  Only GLM computes before its try block.
AdapterRequest(p, apiKey, optModel) ==
    IF p = "glm"
    THEN LET t == generateToken(apiKey)
         IN  [threw |-> t.threw, model |-> WireModel(p, optModel), credential |-> t.token]
    ELSE [threw |-> FALSE, model |-> WireModel(p, optModel), credential |-> apiKey]

\* testApiKey up to its await; everything is inside the try block, so
\* threw means "caught, return false without a call".
AdapterTestRequest_RawKey(p, apiKey) ==
    [threw |-> FALSE, model |-> AI_PROVIDERS[p].defaultModel, credential |-> apiKey]

AdapterTestRequest(p, apiKey) ==
    IF p = "glm"
    THEN LET t == generateToken(apiKey)
         IN  [threw |-> t.threw, model |-> AI_PROVIDERS[p].defaultModel,
              credential |-> t.token]
    ELSE [threw |-> FALSE, model |-> AI_PROVIDERS[p].defaultModel, credential |-> apiKey]

(***************************************************************************)
(* The request of each adapter.  A message is [role, content]; content is  *)
(* a TLA+ string, "" for ''.  The request is [op, adapter, threw, model,   *)
(* credential, messages, system]: messages is the message list of the      *)
(* body (contents for Gemini), system the top-level field system (Claude)  *)
(* or systemInstruction (Gemini), present = FALSE when the body has none.  *)
(***************************************************************************)
\* Most messages of one call.
MaxMessages == 3

Message(role, content) == [role |-> role, content |-> content]

NoSystem == [present |-> FALSE, text |-> ""]

\* the loop of convertMessages over the messages of the call:
\* [messages, system], system the value of systemPrompt (null: absent)
RECURSIVE ClaudeProvider_convertMessages_FirstSystem(_)
ClaudeProvider_convertMessages_FirstSystem(messages) ==
    IF messages = << >> THEN [messages |-> << >>, system |-> NoSystem]
    ELSE LET msg  == Head(messages)
             rest == ClaudeProvider_convertMessages_FirstSystem(Tail(messages))
         IN  IF msg.role = "system"
             THEN [rest EXCEPT !.system = [present |-> TRUE, text |-> msg.content]]
             ELSE [rest EXCEPT !.messages = <<Message(msg.role, msg.content)>> \o @]

RECURSIVE ClaudeProvider_convertMessages(_)
ClaudeProvider_convertMessages(messages) ==
    IF messages = << >> THEN [messages |-> << >>, system |-> NoSystem]
    ELSE LET msg  == messages[Len(messages)]
             done == ClaudeProvider_convertMessages(SubSeq(messages, 1, Len(messages) - 1))
         IN  IF msg.role = "system"
             THEN [done EXCEPT !.system = [present |-> TRUE, text |-> msg.content]]
             ELSE [done EXCEPT !.messages = Append(@, Message(msg.role, msg.content))]

RECURSIVE GeminiProvider_convertMessages(_)
GeminiProvider_convertMessages(messages) ==
    IF messages = << >> THEN [messages |-> << >>, system |-> NoSystem]
    ELSE LET msg  == messages[Len(messages)]
             done == GeminiProvider_convertMessages(SubSeq(messages, 1, Len(messages) - 1))
         IN  IF msg.role = "system"
             THEN [done EXCEPT !.system = [present |-> TRUE, text |-> msg.content]]
             ELSE [done EXCEPT !.messages =
                      Append(@, Message(IF msg.role = "assistant" THEN "model" ELSE "user",
                                        msg.content))]

\* if (systemPrompt) requestBody.system = systemPrompt
SystemField(system) == IF system.present /\ system.text # "" THEN system ELSE NoSystem

\* the message list and the system field of the body of generateText
RequestBody(p, messages) ==
    CASE p = "claude" ->
           LET c == ClaudeProvider_convertMessages(messages)
           IN  [messages |-> c.messages, system |-> SystemField(c.system)]
      [] p = "gemini" ->
           LET c == GeminiProvider_convertMessages(messages)
           IN  [messages |-> c.messages, system |-> SystemField(c.system)]
      [] OTHER ->
           [messages |-> [i \in DOMAIN messages |->
                             Message(messages[i].role, messages[i].content)],
            system |-> NoSystem]

\* the body of testApiKey: one greeting (OpenAI lists the models with GET)
TestBody(p) ==
    [messages |-> IF p = "openai" THEN << >> ELSE <<Message("user", "Hello")>>,
     system |-> NoSystem]

\* given and apiKey are the arguments of the call
NoWire ==
    [op |-> "none", adapter |-> "none", given |-> << >>, apiKey |-> undefined,
     threw |-> FALSE, model |-> "", credential |-> undefined, messages |-> << >>,
     system |-> NoSystem]

\* generateText of adapter p up to its await
GenerateTextRequest(p, messages, apiKey, optModel) ==
    LET r == AdapterRequest(p, apiKey, optModel)
        b == RequestBody(p, messages)
    IN  [op |-> "adapter.generateText", adapter |-> p, given |-> messages,
         apiKey |-> apiKey, threw |-> r.threw,
         model |-> r.model, credential |-> r.credential,
         messages |-> b.messages, system |-> b.system]

\* testApiKey of adapter p up to its await
TestApiKeyRequest(p, apiKey) ==
    LET r == AdapterTestRequest(p, apiKey)
    IN  [op |-> "adapter.testApiKey", adapter |-> p, given |-> << >>,
         apiKey |-> apiKey, threw |-> r.threw,
         model |-> r.model, credential |-> r.credential,
         messages |-> TestBody(p).messages, system |-> NoSystem]

(***************************************************************************)
(* AIService.ts                                                            *)
(***************************************************************************)
\* this.providers: the five adapters registered by initializeProviders
RegisteredProviders == Providers

\* this.settings.apiKeys[providerId]
StoredKey_OfActiveDefault(s, providerId) ==
    IF s.provider \in Providers THEN s.apiKeys[s.provider] ELSE undefined

StoredKey(s, providerId) == s.apiKeys[providerId]

\* !apiKey
Falsy_UndefinedOnly(apiKey) == apiKey = undefined

Falsy(apiKey) == apiKey = undefined \/ apiKey = << >>

\* isProviderConfigured(providerId): !!apiKey && apiKey.trim().length > 0;
\* the fragment " " is white space, every other fragment is not
isProviderConfigured(s, providerId) ==
    /\ ~Falsy(StoredKey(s, providerId))
    /\ \E i \in DOMAIN StoredKey(s, providerId) : StoredKey(s, providerId)[i] # " "

getModelForProvider_AnyProvider(s, providerId) ==
    IF s.useCustomModel
    THEN IF s.customModel # "" THEN s.customModel ELSE s.models[providerId]
    ELSE s.models[providerId]

getModelForProvider(s, providerId) ==
    IF s.useCustomModel /\ s.provider = providerId
    THEN IF s.customModel # "" THEN s.customModel ELSE s.models[providerId]
    ELSE s.models[providerId]

\* error instanceof Error ? error.message : 'Unknown error'
CaughtMessage(error) ==
    IF error.type = "Error" THEN error.message ELSE <<"Unknown error">>

(***************************************************************************)
(* Inputs the operations are called with.                                  *)
(***************************************************************************)
\* Credentials as the config store holds them (loadSettings copies
\* apiKeys from the data file as they are).
KeySamples(p) ==
    {undefined, << >>, <<" ">>, <<"k">>} \cup
    IF p = "glm" THEN {<<"k", ":", "k">>, <<"k", ":", "\\uD800">>} ELSE {}

\* Keys handed to an adapter directly.
AdapterKeySamples(p) ==
    {<< >>, <<"k">>} \cup
    IF p = "glm" THEN {<<"k", ":", "k">>, <<"k", ":", "\\uD800">>, <<"k", ".", "k">>}
    ELSE {}

\* options.model of a call: absent, or a model of the caller's choice
OptModelSamples == {"", "model-of-call"}

\* models as the settings tab leaves them after the user renamed them
UserModels ==
    [gemini |-> "gemini-user", grok |-> "grok-user", claude |-> "claude-user",
     openai |-> "openai-user", glm |-> "glm-user"]

\* settings.provider: a registered provider, or a value of the data file
\* that names none
ProviderSamples == Providers \cup {"none"}

SettingsSamples ==
    { [provider |-> a, apiKeys |-> ks, models |-> m, useCustomModel |-> u,
       customModel |-> c] :
        a \in ProviderSamples,
        ks \in { f \in [Providers -> UNION {KeySamples(p) : p \in Providers}] :
                   /\ \A p \in Providers : f[p] \in KeySamples(p)
                   /\ Cardinality({p \in Providers : f[p] # undefined}) <= MaxConfigured },
        m \in {DEFAULT_AI_SETTINGS.models, UserModels},
        u \in BOOLEAN,
        c \in {"", "gpt-x"} }

(***************************************************************************)
(* GateView.ts: multi-source synthesis.  The literal texts of the prompt   *)
(* and of the note are written in English; every text is a sequence of     *)
(* fragments, and a number printed into a text is its decimal digits.      *)
(***************************************************************************)
\* Most sources in one synthesis request.
MaxSources == 2

DigitChars == <<"0", "1", "2", "3", "4", "5", "6", "7", "8", "9">>

\* `${n}` of a non-negative integer: its decimal digits
RECURSIVE Digits(_)
Digits(n) ==
    IF n < 10 THEN <<DigitChars[n + 1]>>
    ELSE Digits(n \div 10) \o <<DigitChars[(n % 10) + 1]>>

\* n.toLocaleString(): the digits in groups of three
RECURSIVE GroupDigits(_)
GroupDigits(d) ==
    IF Len(d) <= 3 THEN d
    ELSE GroupDigits(SubSeq(d, 1, Len(d) - 3)) \o <<",">> \o SubSeq(d, Len(d) - 2, Len(d))

toLocaleString(n) == GroupDigits(Digits(n))

\* SourceItem.  title, content, url and filePath are single fragments; a url
\* or filePath that is missing is "", which the code does not tell from
\* undefined (it tests them for truthiness).
SourceItem(title, content, type, url, filePath, charCount) ==
    [title |-> title, content |-> content, type |-> type,
     metadata |-> [url |-> url, filePath |-> filePath, charCount |-> charCount]]

\* the label of source.type in a source block
TypeLabel(type) ==
    IF type = "web-clip" THEN "web clipping"
    ELSE IF type = "obsidian-note" THEN "obsidian note"
    ELSE IF type = "selection" THEN "selected text"
    ELSE "direct input"

\* array.join(sep) of texts
RECURSIVE JoinWith(_, _)
JoinWith(texts, sep) ==
    IF texts = << >> THEN << >>
    ELSE IF Len(texts) = 1 THEN texts[1]
    ELSE texts[1] \o sep \o JoinWith(Tail(texts), sep)

BlockSeparator == <<"\n---\n\n">>

\* the callback of request.sources.map: index is the position counted from 0
SourceInfo_IndexFromZero(source, index) ==
    <<"[source ">> \o Digits(index) \o <<"] ", source.title,
      "\ntype: ", TypeLabel(source.type), "\n">>
    \o (IF source.metadata.url # "" THEN <<"URL: ", source.metadata.url>> ELSE << >>)
    \o <<"\n">>
    \o (IF source.metadata.filePath # ""
        THEN <<"file: ", source.metadata.filePath>> ELSE << >>)
    \o <<"\nchars: ">> \o Digits(source.metadata.charCount)
    \o <<"\n\ncontent:\n", source.content, "\n">>

SourceInfo(source, index) ==
    <<"[source ">> \o Digits(index + 1) \o <<"] ", source.title,
      "\ntype: ", TypeLabel(source.type), "\n">>
    \o (IF source.metadata.url # "" THEN <<"URL: ", source.metadata.url>> ELSE << >>)
    \o <<"\n">>
    \o (IF source.metadata.filePath # ""
        THEN <<"file: ", source.metadata.filePath>> ELSE << >>)
    \o <<"\nchars: ">> \o Digits(source.metadata.charCount)
    \o <<"\n\ncontent:\n", source.content, "\n">>

sourcesContext(request) ==
    JoinWith([i \in DOMAIN request.sources |-> SourceInfo(request.sources[i], i - 1)],
             BlockSeparator)

AnalysisTypes == {"synthesis", "comparison", "summary", "custom"}

analysisTypePrompts ==
    [synthesis  |-> <<"Integrate the sources into one view.">>,
     comparison |-> <<"Compare the views of the sources.">>,
     summary    |-> <<"Summarize the sources.">>,
     custom     |-> << >>]

\* analysisTypePrompts[request.analysisType] || ''
basePrompt(request) ==
    IF request.analysisType \in AnalysisTypes
    THEN analysisTypePrompts[request.analysisType] ELSE << >>

\* request.customPrompt is truthy
HasCustomPrompt(request) == request.customPrompt \notin {undefined, << >>}

fullPrompt_CustomReplaces(request) ==
    IF HasCustomPrompt(request) THEN request.customPrompt ELSE basePrompt(request)

fullPrompt(request) ==
    IF HasCustomPrompt(request)
    THEN request.customPrompt \o <<"\n\n">> \o basePrompt(request)
    ELSE basePrompt(request)

systemPrompt(request) ==
    <<"You are a multi-source analyst.", "\nformat: markdown", "\nlanguage: ",
      IF request.language \in {"", "undefined"} THEN "ko" ELSE request.language, "\n">>
    \o (IF request.includeSourceReferences THEN <<"Cite the source of each statement.">>
        ELSE << >>)

SourcesHeader == "=== sources to analyze ("
ClosingHeader == "=== request ===\nAnalyze the "

userPrompt(request) ==
    fullPrompt(request)
    \o <<"\n\n", SourcesHeader>> \o Digits(Len(request.sources)) \o <<") ===\n\n">>
    \o sourcesContext(request)
    \o <<"\n\n", ClosingHeader>> \o Digits(Len(request.sources))
    \o <<" sources above.">>

\* request.sources.reduce((acc, s) => acc + s.metadata.charCount, 0)
TotalChars_LastSource(sources) ==
    IF sources = << >> THEN 0 ELSE sources[Len(sources)].metadata.charCount

RECURSIVE TotalChars(_)
TotalChars(sources) ==
    IF sources = << >> THEN 0
    ELSE Head(sources).metadata.charCount + TotalChars(Tail(sources))

\* one line of the reference list
SourceRef_FilePathFirst(s) ==
    IF s.metadata.filePath # ""
    THEN <<"- [[", s.metadata.filePath, "|", s.title, "]]">>
    ELSE IF s.metadata.url # "" THEN <<"- [", s.title, "](", s.metadata.url, ")">>
    ELSE <<"- ", s.title>>

SourceRef(s) ==
    IF s.metadata.url # "" THEN <<"- [", s.title, "](", s.metadata.url, ")">>
    ELSE IF s.metadata.filePath # ""
    THEN <<"- [[", s.metadata.filePath, "|", s.title, "]]">>
    ELSE <<"- ", s.title>>

sourceRefs(request) ==
    JoinWith([i \in DOMAIN request.sources |-> SourceRef(request.sources[i])], <<"\n">>)

analysisTypeNames ==
    [synthesis |-> "integrated analysis", comparison |-> "comparative analysis",
     summary |-> "summary", custom |-> "custom analysis"]

\* new Date().toISOString().split('T')[0]: every run of a behaviour happens
\* on one calendar day
Today == "2025-06-01"

TotalCharsField    == "\ntotal-chars: "
TotalCharsOverview == "\n- total characters analyzed: "
SourcesCountField  == "\nsources-count: "
ResultHeader       == "\n\n## result\n\n"
SourcesUsedHeader  == "\n\n## sources used\n\n"

noteContent(request, provider, text) ==
    <<"---\ntype: multi-source-analysis\nanalysis-type: ", request.analysisType,
      SourcesCountField>> \o Digits(Len(request.sources))
    \o <<TotalCharsField>> \o Digits(TotalChars(request.sources))
    \o <<"\nprovider: ", provider, "\ncreated: ", Today, "\n---\n\n# multi-source ",
         analysisTypeNames[request.analysisType],
         "\n\n## overview\n- analysis type: ", analysisTypeNames[request.analysisType],
         "\n- sources: ">> \o Digits(Len(request.sources))
    \o <<TotalCharsOverview>> \o toLocaleString(TotalChars(request.sources))
    \o <<"\n- AI model: ", provider, "\n- analyzed at: ", Today, ResultHeader>>
    \o text
    \o <<SourcesUsedHeader>> \o sourceRefs(request)
    \o <<"\n\n---\n*generated by Easy Gate multi-source analysis*\n">>

\* the path saveAnalysisResult creates for the note of a run
NotePath(request) ==
    <<"AI-Notes/multi-source_", analysisTypeNames[request.analysisType], "_", Today, ".md">>

\* callMultiSourceAI: the model it names in the request of each provider
MultiSourceModels ==
    [gemini |-> "gemini-2.0-flash", grok |-> "grok-3-latest", openai |-> "gpt-4o-mini",
     claude |-> "claude-sonnet-4-20250514", glm |-> "glm-4-flash"]

\* x || '' of a text
OrEmpty(text) == IF text = undefined THEN << >> ELSE text

\* callMultiSourceAI after its fetch has settled with outcome:
\* [threw, error, text].  The payload is read with optional chaining; only
\* a null payload throws.
MultiSourceResult(provider, outcome) ==
    LET data == outcome.body
        text ==
            IF provider = "gemini"
            THEN IF /\ data.candidates.present
                    /\ Len(data.candidates.items) > 0
                    /\ data.candidates.items[1].content.present
                    /\ Len(data.candidates.items[1].content.parts) > 0
                 THEN OrEmpty(data.candidates.items[1].content.parts[1].text)
                 ELSE << >>
            ELSE IF provider = "claude"
            THEN IF data.content.present /\ Len(data.content.items) > 0
                 THEN OrEmpty(data.content.items[1].text)
                 ELSE << >>
            ELSE IF /\ data.choices.present
                    /\ Len(data.choices.items) > 0
                    /\ data.choices.items[1].message.present
                 THEN OrEmpty(data.choices.items[1].message.content)
                 ELSE << >>
    IN  IF outcome.kind = "throw"
        THEN [threw |-> TRUE, error |-> outcome.error, text |-> << >>]
        ELSE IF data.isNull
        THEN [threw |-> TRUE, error |-> TypeError, text |-> << >>]
        ELSE IF text = << >>
        THEN [threw |-> TRUE, error |-> ErrorValue(<<"No response received from AI.">>),
              text |-> << >>]
        ELSE [threw |-> FALSE, error |-> ObjectValue, text |-> text]

\* the catch of runMultiSourceAnalysis: the text handed to showError
SynthesisErrorNotice(error) ==
    <<"Multi-source analysis error: ">>
    \o (IF error.type = "Error" THEN error.message ELSE <<"analysis failed">>)

(***************************************************************************)
(* Synthesis requests and fetch outcomes the model draws from.             *)
(***************************************************************************)
SourceSamples ==
    { SourceItem("Page A", "text of A", "web-clip", "https://a.example", "clips/a.md", 600),
      SourceItem("Note B", "text of B", "obsidian-note", "", "notes/b.md", 700),
      SourceItem("Memo C", "text of C", "manual", "", "", 5) }

CustomPromptSamples == {undefined, << >>, <<"Focus on cost.">>}

RequestSamples ==
    { [sources |-> ss, analysisType |-> t, customPrompt |-> c,
       includeSourceReferences |-> TRUE, language |-> "ko"] :
        ss \in UNION {[1..n -> SourceSamples] : n \in 0..MaxSources},
        t \in AnalysisTypes,
        c \in CustomPromptSamples }

NoRequest ==
    [sources |-> << >>, analysisType |-> "none", customPrompt |-> undefined,
     includeSourceReferences |-> FALSE, language |-> ""]

\* What fetch and response.json() give callMultiSourceAI: a payload, or a
\* thrown value (fetch throws an Error; a rejection with another value is
\* the object case).
MultiSourceOutcomes(p) ==
    { o \in HttpOutcomes(p, "generateText") :
        \/ /\ o.kind = "json"
           /\ ~o.body.usage.present
           /\ o.body.error.present =>
                  /\ ~o.body[ContainerField(p, "generateText")].present
                  /\ o.body.error.message \in {<<"Incorrect API key provided">>,
                                               <<"Rate limit reached for requests">>,
                                               <<"The model is overloaded">>}
        \/ /\ o.kind = "throw"
           /\ \/ o.error.type = "object"
              \/ /\ o.error.type = "Error"
                 /\ o.error.message \in {<<"401">>, <<"timeout">>, <<"Request failed">>} }

\* The settings the synthesis runs are started under: only the active
\* provider may hold a key.
SynthesisSettingsSamples ==
    { s \in SettingsSamples :
        /\ s.models = DEFAULT_AI_SETTINGS.models
        /\ s.customModel = "gpt-x"
        /\ \A p \in Providers :
              s.apiKeys[p] # undefined =>
                  (p = s.provider /\ s.apiKeys[p] \in {<<"k">>, <<"k", ":", "k">>}) }

\* The settings objects.  objects[i] is the value of object i; plugin is the
\* object plugin.settings.ai refers to, service the object AIService.settings
\* refers to.  loadSettings builds one object and hands it to
\* initializeAIService.
StoreOf(s) == [objects |-> <<s>>, plugin |-> 1, service |-> 1, saving |-> 0]

(***************************************************************************)
(* main.ts: the gates of the plugin.  A gate option is [id, url, title];   *)
(* settings.gates maps a gate id to its option, NoGate where the object    *)
(* has no such property.                                                   *)
(***************************************************************************)
\* Most calls of addGate and removeGate in one session.
MaxGateCalls == 4

GateIds == {"gate-a", "gate-b"}

NoGate == [id |-> "", url |-> "", title |-> ""]

GateFrameOption(id, url, title) == [id |-> id, url |-> url, title |-> title]

\* normalizeGateOption(gate): a gate without id gets the id derived from its
\* url, a gate without title a default title
normalizeGateOption(gate) ==
    [gate EXCEPT !.id = IF gate.id # "" THEN gate.id
                        ELSE IF gate.url = "https://a.example" THEN "gate-a"
                        ELSE "gate-b",
                 !.title = IF gate.title # "" THEN gate.title ELSE "Gate"]

\* registerGate(plugin, options): one more registration of the view type,
\* the command and the ribbon icon of options.id
registerGate(registered, options) == [registered EXCEPT ![options.id] = @ + 1]

\* the plugin before onload: gates is settings.gates, registered the number
\* of registerGate calls per gate id, removing the gate ids of the removeGate
\* calls waiting for unloadView, saves the calls of saveSettings, calls the
\* calls of addGate and removeGate, last the latest of them
NoPlugin ==
    [gates |-> [id \in GateIds |-> NoGate], registered |-> [id \in GateIds |-> 0],
     removing |-> {}, saves |-> 0, calls |-> 0,
     last |-> [op |-> "none", id |-> "", gate |-> NoGate]]

\* the loop of initGates: every gate of the loaded settings is registered
initGates(gates) ==
    [id \in GateIds |-> IF gates[id] # NoGate THEN 1 ELSE 0]

(***************************************************************************)
(* InlineProgress.  A step is [id, status].  currentProgress is the        *)
(* number num / den, or NaN (the result of 0 / 0) when nan is set.         *)
(***************************************************************************)
\* Most steps of one InlineProgress.
MaxSteps == 3

\* Most calls of nextStep on one InlineProgress.
MaxNextSteps == 7

ProgressStep(id, status) == [id |-> id, status |-> status]

Percent(num, den) == [nan |-> FALSE, num |-> num, den |-> den]

NaN == [nan |-> TRUE, num |-> 0, den |-> 1]

\* x / y * 100 of two counts
RatioTimes100(x, y) == IF y = 0 THEN NaN ELSE Percent(x * 100, y)

\* Math.min(100, Math.max(0, percent)): NaN stays NaN
Clamp(percent) ==
    IF percent.nan THEN NaN
    ELSE IF percent.num < 0 THEN Percent(0, 1)
    ELSE IF percent.num > 100 * percent.den THEN Percent(100, 1)
    ELSE percent

\* setProgress(percent)
setProgress(p, percent) == [p EXCEPT !.currentProgress = Clamp(percent)]

\* steps.findIndex(s => s.status === 'active'), from 1; 0 when there is none
ActiveIndex(steps) ==
    IF \E i \in DOMAIN steps : steps[i].status = "active"
    THEN CHOOSE i \in DOMAIN steps :
             /\ steps[i].status = "active"
             /\ \A j \in 1..(i - 1) : steps[j].status # "active"
    ELSE 0

CompletedCount(steps) == Cardinality({i \in DOMAIN steps : steps[i].status = "completed"})

\* renderSteps(): the first step becomes active when it is pending
renderSteps(steps) ==
    IF steps # << >> /\ steps[1].status = "pending"
    THEN [steps EXCEPT ![1].status = "active"]
    ELSE steps

\* nextStep() on the steps: the active step is completed, the step behind it
\* (the first one when no step is active) becomes active
nextStep(p) ==
    LET currentIndex == ActiveIndex(p.steps)
        done         == IF currentIndex >= 1
                        THEN [p.steps EXCEPT ![currentIndex].status = "completed"]
                        ELSE p.steps
        nextIndex    == currentIndex + 1
        moved        == IF nextIndex <= Len(done)
                        THEN [done EXCEPT ![nextIndex].status = "active"]
                        ELSE done
    IN  setProgress([p EXCEPT !.steps = moved],
                    RatioTimes100(CompletedCount(moved), Len(moved)))

\* new InlineProgress(options)
InlineProgress(steps, showBar, compact) ==
    [shown |-> FALSE, steps |-> steps, showBar |-> showBar, compact |-> compact,
     currentProgress |-> Percent(0, 1), calls |-> 0]

NoProgress == InlineProgress(<< >>, TRUE, FALSE)

\* ProcessModal before it is opened.  actions holds the button rows
\* (div.process-actions) attached to contentEl, oldest first, each the set
\* of its buttons; this.actionsEl is the last one.  inFlight counts the
\* generateTextWithProvider calls whose vendor call has not settled,
\* started the runs of startProcessing, saves the calls of onSave.
NoModal ==
    [opened |-> FALSE, provider |-> "none", state |-> "preparing",
     resultContent |-> << >>, errorMessage |-> << >>, actions |-> << >>,
     inFlight |-> 0, started |-> 0, saves |-> 0]

NoSynthesis ==
    [request |-> NoRequest, provider |-> "none", apiKey |-> undefined, model |-> "",
     credential |-> undefined, userPrompt |-> << >>, systemPrompt |-> << >>,
     text |-> << >>, document |-> << >>, saves |-> 0, threw |-> FALSE]

(***************************************************************************)
(* State of the operation in progress.                                     *)
(***************************************************************************)
NoCall ==
    [op |-> "none", provider |-> "none", apiKey |-> undefined, optModel |-> "",
     adapter |-> "none", model |-> "", credential |-> undefined]

\* result.kind: "none"; "response" (an AIProviderResponse in response);
\* "boolean" (testApiKey of an adapter, in ok); "testResult" (AIService
\* testApiKey: {success: ok, error}); "thrown" (the promise was rejected,
\* error is the message of the value thrown).
NoResult == [kind |-> "none", response |-> Failure(undefined, undefined),
             ok |-> FALSE, error |-> undefined]

ResponseResult(r) == [NoResult EXCEPT !.kind = "response", !.response = r]
BooleanResult(b)  == [NoResult EXCEPT !.kind = "boolean", !.ok = b]
TestResult(b, e)  == [NoResult EXCEPT !.kind = "testResult", !.ok = b, !.error = e]
ThrownResult(e)   == [NoResult EXCEPT !.kind = "thrown", !.error = e.message]

\* new AIService(settings): the service starts from the settings the
\* plugin loaded.
\* Nothing has run in the view yet and the vault holds no note of a run.
ViewInit ==
    /\ synthesis = NoSynthesis
    /\ vault = {}
    /\ notices = << >>
    /\ modal = NoModal
    /\ store = StoreOf(settings)
    /\ wire = NoWire
    /\ plugin = NoPlugin
    /\ progress = NoProgress

Init ==
    /\ settings \in SettingsSamples
    /\ pc = "idle"
    /\ call = NoCall
    /\ http = NoHttp
    /\ result = NoResult
    /\ httpCalls = 0
    /\ ViewInit

\* The operation returns without having issued a call.
ReturnNow(c, r) ==
    /\ pc' = "done"
    /\ call' = c
    /\ result' = r
    /\ UNCHANGED <<settings, http, httpCalls>>
    /\ UNCHANGED viewVars

\* The operation issues its requestUrl call and suspends.
Dispatch(c) ==
    /\ pc' = "awaiting"
    /\ call' = c
    /\ httpCalls' = httpCalls + 1
    /\ UNCHANGED <<settings, http, result>>
    /\ UNCHANGED viewVars

(***************************************************************************)
(* Adapter operations called directly.                                     *)
(***************************************************************************)
AdapterGenerateTextCall ==
    /\ pc = "idle"
    /\ \E p \in Providers, optModel \in OptModelSamples :
       \E apiKey \in AdapterKeySamples(p) :
         LET req == AdapterRequest(p, apiKey, optModel)
             c   == [op |-> "adapter.generateText", provider |-> p, apiKey |-> apiKey,
                     optModel |-> optModel, adapter |-> p, model |-> req.model,
                     credential |-> req.credential]
         IN  IF req.threw
             THEN ReturnNow(c, ThrownResult(URIError))
             ELSE Dispatch(c)

AdapterTestApiKeyCall ==
    /\ pc = "idle"
    /\ \E p \in Providers :
       \E apiKey \in AdapterKeySamples(p) :
         LET req == AdapterTestRequest(p, apiKey)
             c   == [op |-> "adapter.testApiKey", provider |-> p, apiKey |-> apiKey,
                     optModel |-> "", adapter |-> p, model |-> req.model,
                     credential |-> req.credential]
         IN  IF req.threw
             THEN ReturnNow(c, BooleanResult(FALSE))
             ELSE Dispatch(c)

(***************************************************************************)
(* AIService operations.                                                   *)
(***************************************************************************)
\* generateText(messages, options): the active default provider
ServiceGenerateText ==
    /\ pc = "idle"
    /\ \E optModel \in OptModelSamples :
         LET c0 == [NoCall EXCEPT !.op = "service.generateText",
                                  !.provider = settings.provider,
                                  !.optModel = optModel]
         IN  IF settings.provider \notin RegisteredProviders
             THEN ReturnNow(c0, ResponseResult(Failure(<<"No provider selected">>,
                                                       undefined)))
             ELSE
             LET apiKey == StoredKey(settings, settings.provider) IN
             IF Falsy(apiKey)
             THEN ReturnNow(c0, ResponseResult(Failure(
                      <<"API key not configured for ",
                        AI_PROVIDERS[settings.provider].name>>, undefined)))
             ELSE
             LET model == IF optModel # "" THEN optModel
                          ELSE getModelForProvider(settings, settings.provider)
                 req   == AdapterRequest(settings.provider, apiKey, model)
                 c     == [c0 EXCEPT !.apiKey = apiKey, !.adapter = settings.provider,
                                     !.model = req.model, !.credential = req.credential]
             IN  IF req.threw
                 THEN ReturnNow(c, ResponseResult(Failure(CaughtMessage(URIError),
                                                          undefined)))
                 ELSE Dispatch(c)

\* generateTextWithProvider(providerId, messages, options)
ServiceGenerateTextWithProvider ==
    /\ pc = "idle"
    /\ \E providerId \in ProviderSamples, optModel \in OptModelSamples :
         LET c0 == [NoCall EXCEPT !.op = "service.generateTextWithProvider",
                                  !.provider = providerId, !.optModel = optModel]
         IN  IF providerId \notin RegisteredProviders
             THEN ReturnNow(c0, ResponseResult(Failure(<<"Provider not found">>,
                                                       undefined)))
             ELSE
             LET apiKey == StoredKey(settings, providerId) IN
             IF Falsy(apiKey)
             THEN ReturnNow(c0, ResponseResult(Failure(
                      <<"API key not configured for ", AI_PROVIDERS[providerId].name>>,
                      undefined)))
             ELSE
             LET model == IF optModel # "" THEN optModel
                          ELSE getModelForProvider(settings, providerId)
                 req   == AdapterRequest(providerId, apiKey, model)
                 c     == [c0 EXCEPT !.apiKey = apiKey, !.adapter = providerId,
                                     !.model = req.model, !.credential = req.credential]
             IN  IF req.threw
                 THEN ReturnNow(c, ResponseResult(Failure(CaughtMessage(URIError),
                                                          undefined)))
                 ELSE Dispatch(c)

\* testApiKey(providerId, apiKey)
ServiceTestApiKey ==
    /\ pc = "idle"
    /\ \E providerId \in ProviderSamples :
         IF providerId \notin RegisteredProviders
         THEN ReturnNow([NoCall EXCEPT !.op = "service.testApiKey",
                                       !.provider = providerId],
                        TestResult(FALSE, <<"Provider not found">>))
         ELSE \E apiKey \in AdapterKeySamples(providerId) :
                LET req == AdapterTestRequest(providerId, apiKey)
                    c   == [op |-> "service.testApiKey", provider |-> providerId,
                            apiKey |-> apiKey, optModel |-> "", adapter |-> providerId,
                            model |-> req.model, credential |-> req.credential]
                IN  IF req.threw
                    THEN ReturnNow(c, TestResult(FALSE, <<"Invalid API key">>))
                    ELSE Dispatch(c)

(***************************************************************************)
(* requestUrl settles and the suspended operation runs to its end.         *)
(***************************************************************************)
\* Outcomes drawn for the calls the service dispatches: every payload, and
\* the thrown values with a text of at most one fragment.
ServiceHttpOutcomes(p) ==
    { o \in HttpOutcomes(p, "generateText") :
        /\ o.kind = "throw" => o.error.type = "object" \/ Len(o.error.message) <= 1
        /\ o.kind = "json" => ~o.body.usage.present }

Settle(outcome, r) ==
    /\ pc' = "done"
    /\ http' = outcome
    /\ result' = r
    /\ UNCHANGED <<settings, call, httpCalls>>
    /\ UNCHANGED viewVars

AdapterGenerateTextSettle ==
    /\ pc = "awaiting"
    /\ call.op = "adapter.generateText"
    /\ \E outcome \in HttpOutcomes(call.adapter, "generateText") :
         Settle(outcome, ResponseResult(AdapterGenerateText(call.adapter, outcome)))

AdapterTestApiKeySettle ==
    /\ pc = "awaiting"
    /\ call.op = "adapter.testApiKey"
    /\ \E outcome \in HttpOutcomes(call.adapter, "testApiKey") :
         Settle(outcome, BooleanResult(AdapterTestApiKey(call.adapter, outcome)))

\* return await provider.generateText(...): the adapter's response as it is
ServiceGenerateTextSettle ==
    /\ pc = "awaiting"
    /\ call.op \in {"service.generateText", "service.generateTextWithProvider"}
    /\ \E outcome \in ServiceHttpOutcomes(call.adapter) :
         Settle(outcome, ResponseResult(AdapterGenerateText(call.adapter, outcome)))

ServiceTestApiKeySettle ==
    /\ pc = "awaiting"
    /\ call.op = "service.testApiKey"
    /\ \E outcome \in HttpOutcomes(call.adapter, "testApiKey") :
         LET isValid == AdapterTestApiKey(call.adapter, outcome)
         IN  Settle(outcome, TestResult(isValid, IF isValid THEN undefined
                                                 ELSE <<"Invalid API key">>))

\* The caller has the result; the next operation may start.
Return ==
    /\ pc = "done"
    /\ pc' = "idle"
    /\ call' = NoCall
    /\ http' = NoHttp
    /\ result' = NoResult
    /\ httpCalls' = 0
    /\ UNCHANGED settings
    /\ UNCHANGED viewVars

(***************************************************************************)
(* Specifications.                                                         *)
(*   Spec:         the orchestration service, constructed with any of the  *)
(*                 sampled settings.                                       *)
(*   SpecAdapters: the adapters called directly, and AIService.testApiKey  *)
(*                 (which reads no setting), under every outcome of the    *)
(*                 transport.                                              *)
(***************************************************************************)
Next ==
    \/ ServiceGenerateText
    \/ ServiceGenerateTextWithProvider
    \/ ServiceGenerateTextSettle
    \/ Return

Spec == Init /\ [][Next]_vars

NextAdapters ==
    \/ AdapterGenerateTextCall
    \/ AdapterTestApiKeyCall
    \/ ServiceTestApiKey
    \/ AdapterGenerateTextSettle
    \/ AdapterTestApiKeySettle
    \/ ServiceTestApiKeySettle
    \/ Return

InitAdapters ==
    /\ settings = DEFAULT_AI_SETTINGS
    /\ pc = "idle"
    /\ call = NoCall
    /\ http = NoHttp
    /\ result = NoResult
    /\ httpCalls = 0
    /\ ViewInit

SpecAdapters == InitAdapters /\ [][NextAdapters]_vars

(***************************************************************************)
(* GateView.runMultiSourceAnalysis.  The run suspends at the fetch of      *)
(* callMultiSourceAI; everything before it is one step, everything after   *)
(* it (reading the payload, building the note, saveAnalysisResult) the     *)
(* other.                                                                  *)
(***************************************************************************)
\* the run ends in its catch block: loading.hide(), showError
SynthesisFails(run, error) ==
    /\ pc' = "done"
    /\ synthesis' = run
    /\ notices' = Append(notices, SynthesisErrorNotice(error))
    /\ UNCHANGED vault

\* runMultiSourceAnalysis(request) up to the fetch
RunMultiSourceAnalysis ==
    /\ pc = "idle"
    /\ \E request \in RequestSamples :
         LET aiSettings == settings
             provider   == aiSettings.provider
             apiKey     == IF provider \in Providers THEN aiSettings.apiKeys[provider]
                           ELSE undefined
             run0       == [NoSynthesis EXCEPT !.request = request, !.provider = provider,
                                               !.apiKey = apiKey]
         IN  IF Falsy(apiKey)
             THEN /\ SynthesisFails(run0, ErrorValue(<<provider, " API key is not set.">>))
                  /\ UNCHANGED <<http, httpCalls>>
             ELSE /\ pc' = "awaiting"
                  /\ synthesis' = [run0 EXCEPT !.systemPrompt = systemPrompt(request),
                                               !.userPrompt = userPrompt(request),
                                               !.model = MultiSourceModels[provider],
                                               !.credential = apiKey]
                  /\ httpCalls' = httpCalls + 1
                  /\ UNCHANGED <<http, vault, notices>>
    /\ UNCHANGED <<settings, call, result, store, modal, pluginVars>>

\* the fetch settles: callMultiSourceAI returns or throws, and on a result
\* the note is built and handed to saveAnalysisResult, whose vault.create
\* throws when the path exists (saveAnalysisResult catches and reports it)
MultiSourceSettle ==
    /\ pc = "awaiting"
    /\ synthesis.provider \in Providers
    /\ \E outcome \in MultiSourceOutcomes(synthesis.provider) :
         LET r == MultiSourceResult(synthesis.provider, outcome)
         IN  /\ http' = outcome
             /\ IF r.threw
                THEN SynthesisFails(synthesis, r.error)
                ELSE LET content == noteContent(synthesis.request, synthesis.provider,
                                                r.text)
                         path    == NotePath(synthesis.request)
                     IN  /\ pc' = "done"
                         /\ IF path \in vault
                            THEN /\ synthesis' = [synthesis EXCEPT !.text = r.text]
                                 /\ notices' = Append(notices, <<"File already exists.">>)
                                 /\ UNCHANGED vault
                            ELSE /\ synthesis' = [synthesis EXCEPT !.text = r.text,
                                                                   !.document = content,
                                                                   !.saves = @ + 1]
                                 /\ vault' = vault \cup {path}
                                 /\ UNCHANGED notices
    /\ UNCHANGED <<settings, call, result, httpCalls, store, modal, pluginVars>>

\* onAnalyze has its promise; the next run may start
SynthesisReturn ==
    /\ pc = "done"
    /\ pc' = "idle"
    /\ synthesis' = NoSynthesis
    /\ notices' = << >>
    /\ http' = NoHttp
    /\ httpCalls' = 0
    /\ UNCHANGED <<settings, call, result, vault, store, modal, pluginVars>>

NextSynthesis ==
    \/ RunMultiSourceAnalysis
    \/ MultiSourceSettle
    \/ SynthesisReturn

InitSynthesis ==
    /\ settings \in SynthesisSettingsSamples
    /\ pc = "idle"
    /\ call = NoCall
    /\ http = NoHttp
    /\ result = NoResult
    /\ httpCalls = 0
    /\ ViewInit

SpecSynthesis == InitSynthesis /\ [][NextSynthesis]_vars

(***************************************************************************)
(* SetingTab.ts and main.ts: the settings tab changes plugin.settings.ai   *)
(* and calls saveSettings, which awaits saveData and then hands            *)
(* this.settings.ai to the service (updateAIServiceSettings).              *)
(***************************************************************************)
\* Most saveSettings calls that await saveData at one time.
MaxPendingSaves == 2

\* the providers whose row of the tab the model's user works on
EditedProviders == {"openai", "claude"}

\* tempApiKey: the trimmed text of the key field
TempApiKeySamples == {<<"k">>, <<"k2">>}

\* savedApiKey && savedApiKey.trim().length > 0
hasApiKey(savedApiKey) == savedApiKey \notin {undefined, << >>, <<" ">>}

\* an assignment to a field of plugin.settings.ai: the object is changed
\* where it is, and whoever holds it sees the change
AssignInPlace(st, value) == [st EXCEPT !.objects[st.plugin] = value]

\* the tab has changed plugin.settings.ai to value and called saveSettings
ChangeAndSave(value) ==
    /\ store.saving < MaxPendingSaves
    /\ store' = [AssignInPlace(store, value) EXCEPT !.saving = @ + 1]
    /\ settings' = store'.objects[store'.service]
    /\ UNCHANGED <<pc, call, http, result, httpCalls, synthesis, vault, notices, modal,
                   pluginVars>>

\* the save button of a provider row
SettingTabSaveApiKey ==
    \E providerId \in EditedProviders, tempApiKey \in TempApiKeySamples :
        /\ Len(tempApiKey) > 0
        /\ LET ai == store.objects[store.plugin]
           IN  ChangeAndSave([ai EXCEPT !.apiKeys[providerId] = tempApiKey])

\* the trash button of a provider row (shown when the row has a key)
SettingTabDeleteApiKey ==
    \E providerId \in EditedProviders :
        LET ai == store.objects[store.plugin]
        IN  /\ hasApiKey(ai.apiKeys[providerId])
            /\ ChangeAndSave([ai EXCEPT !.apiKeys[providerId] = undefined])

\* the dropdown of the default provider: its options are the providers
\* with a key
SettingTabSelectProvider ==
    \E value \in EditedProviders :
        LET ai == store.objects[store.plugin]
        IN  /\ hasApiKey(ai.apiKeys[value])
            /\ ai.provider # value
            /\ ChangeAndSave([ai EXCEPT !.provider = value])

\* saveData has resolved: updateAIServiceSettings(this.settings.ai), that
\* is AIService.updateSettings, which stores the object it is given
SaveSettingsDone ==
    /\ store.saving > 0
    /\ store' = [store EXCEPT !.service = store.plugin, !.saving = @ - 1]
    /\ settings' = store'.objects[store'.service]
    /\ UNCHANGED <<pc, call, http, result, httpCalls, synthesis, vault, notices, modal,
                   pluginVars>>

SettingsTabSamples ==
    { s \in SettingsSamples :
        /\ s.models = DEFAULT_AI_SETTINGS.models
        /\ s.customModel = "gpt-x"
        /\ s.provider \in EditedProviders
        /\ \A p \in Providers :
              s.apiKeys[p] # undefined => (p \in EditedProviders /\ s.apiKeys[p] = <<"k">>) }

InitSettings ==
    /\ settings \in SettingsTabSamples
    /\ pc = "idle"
    /\ call = NoCall
    /\ http = NoHttp
    /\ result = NoResult
    /\ httpCalls = 0
    /\ ViewInit

NextSettings ==
    \/ ServiceGenerateText
    \/ ServiceGenerateTextWithProvider
    \/ ServiceGenerateTextSettle
    \/ Return
    \/ SettingTabSaveApiKey
    \/ SettingTabDeleteApiKey
    \/ SettingTabSelectProvider
    \/ SaveSettingsDone

SpecSettings == InitSettings /\ [][NextSettings]_vars

(***************************************************************************)
(* ProcessModal.  startProcessing suspends at its call of                  *)
(* generateTextWithProvider; when the service fails locally the call       *)
(* resolves before any other event, so the run is one step.                *)
(***************************************************************************)
\* Most runs of startProcessing in one modal.
MaxRuns == 3

\* Most calls of onSave in one modal.
MaxSaves == 2

\* this.actionsEl.empty() followed by new buttons: the last row is replaced
SetActions(m, buttons) ==
    IF m.actions = << >> THEN m
    ELSE [m EXCEPT !.actions[Len(m.actions)] = buttons]

\* renderActions(): a new row with the cancel button is added to contentEl;
\* the rows already there stay
renderActions(m) == [m EXCEPT !.actions = Append(m.actions, {"cancel"})]

\* the catch block of startProcessing
ProcessingFailed(m, error) ==
    SetActions([m EXCEPT !.state = "error",
                         !.errorMessage = IF error.type = "Error" THEN error.message
                                          ELSE <<"unknown error">>],
               {"close", "retry"})

\* startProcessing from the response on: the content is shown whatever
\* response.success is; rendered is whether MarkdownRenderer.renderMarkdown
\* resolved (it throws otherwise)
ProcessingResumes(m, response, rendered) ==
    LET shown == [m EXCEPT !.resultContent = response.content]
    IN  IF rendered
        THEN SetActions([shown EXCEPT !.state = "completed"], {"close", "copy", "save"})
        ELSE ProcessingFailed(shown, ErrorValue(<<"Failed to render markdown">>))

\* generateTextWithProvider up to the adapter call, as startProcessing sees
\* it: [dispatched, response]; response is what it returns when it makes
\* no vendor call
generateTextWithProvider(s, providerId) ==
    IF providerId \notin RegisteredProviders
    THEN [dispatched |-> FALSE, response |-> Failure(<<"Provider not found">>, undefined)]
    ELSE IF Falsy(StoredKey(s, providerId))
    THEN [dispatched |-> FALSE,
          response |-> Failure(<<"API key not configured for ",
                                 AI_PROVIDERS[providerId].name>>, undefined)]
    ELSE IF AdapterRequest(providerId, StoredKey(s, providerId),
                           getModelForProvider(s, providerId)).threw
    THEN [dispatched |-> FALSE,
          response |-> Failure(CaughtMessage(URIError), undefined)]
    ELSE [dispatched |-> TRUE, response |-> Failure(undefined, undefined)]

\* startProcessing() of modal m up to its await, or to its end when no
\* vendor call is made
startProcessing(m, rendered) ==
    LET run == [m EXCEPT !.state = "processing", !.started = @ + 1]
    IN  IF store.service = 0
        THEN ProcessingFailed([run EXCEPT !.state = "preparing"],
                              ErrorValue(<<"AI Service is not initialized.">>))
        ELSE LET r == generateTextWithProvider(settings, m.provider)
             IN  IF r.dispatched THEN [run EXCEPT !.inFlight = @ + 1]
                 ELSE ProcessingResumes(run, r.response, rendered)

\* what generateTextWithProvider hands startProcessing without a vendor
\* call; the response of the call before stays when a call is dispatched
LocalResponse(providerId) ==
    IF store.service # 0 /\ ~generateTextWithProvider(settings, providerId).dispatched
    THEN ResponseResult(generateTextWithProvider(settings, providerId).response)
    ELSE result

\* new ProcessModal(...).open(): onOpen renders the rows and starts
ProcessModalOpen ==
    /\ ~modal.opened
    /\ modal.started = 0
    /\ \E provider \in Providers, rendered \in BOOLEAN :
         /\ modal' = startProcessing(renderActions([NoModal EXCEPT !.opened = TRUE,
                                                                   !.provider = provider]),
                                     rendered)
         /\ result' = LocalResponse(provider)
    /\ UNCHANGED <<settings, pc, call, http, httpCalls, synthesis, vault,
                   notices, store, pluginVars>>

\* a click on a retry button that is in the document
ProcessModalRetry ==
    /\ modal.opened
    /\ \E i \in DOMAIN modal.actions : "retry" \in modal.actions[i]
    /\ modal.started < MaxRuns
    /\ \E rendered \in BOOLEAN :
         modal' = startProcessing(renderActions([modal EXCEPT !.state = "preparing",
                                                              !.resultContent = << >>,
                                                              !.errorMessage = << >>]),
                                  rendered)
    /\ result' = LocalResponse(modal.provider)
    /\ UNCHANGED <<settings, pc, call, http, httpCalls, synthesis, vault,
                   notices, store, pluginVars>>

\* a vendor call of the modal settles and its startProcessing runs on
ProcessModalSettle ==
    /\ modal.inFlight > 0
    /\ \E outcome \in ServiceHttpOutcomes(modal.provider), rendered \in BOOLEAN :
         /\ http' = outcome
         /\ result' = ResponseResult(AdapterGenerateText(modal.provider, outcome))
         /\ modal' = ProcessingResumes([modal EXCEPT !.inFlight = @ - 1],
                                       AdapterGenerateText(modal.provider, outcome),
                                       rendered)
    /\ UNCHANGED <<settings, pc, call, httpCalls, synthesis, vault, notices, store,
                   pluginVars>>

\* the note onSave (GateView.saveAnalysisResult) creates for the clip
ModalNotePath == <<"AI-Notes/", "Clip - AI analysis", ".md">>

\* a click on a save button that is in the document: saveAsNote().  onSave
\* gives null when vault.create fails, which it does when the note exists.
ProcessModalSave ==
    /\ modal.opened
    /\ \E i \in DOMAIN modal.actions : "save" \in modal.actions[i]
    /\ modal.saves < MaxSaves
    /\ IF modal.resultContent \in {<< >>, undefined}
       THEN /\ notices' = <<"Nothing to save.">>
            /\ UNCHANGED <<modal, vault>>
       ELSE IF ModalNotePath \in vault
       THEN /\ notices' = <<"File already exists.">>
            /\ modal' = [modal EXCEPT !.saves = @ + 1]
            /\ UNCHANGED vault
       ELSE /\ vault' = vault \cup {ModalNotePath}
            /\ modal' = [modal EXCEPT !.saves = @ + 1, !.opened = FALSE,
                                      !.actions = << >>]
            /\ UNCHANGED notices
    /\ UNCHANGED <<settings, pc, call, http, result, httpCalls, synthesis, store,
                   pluginVars>>

\* the cancel or close button: close() empties contentEl
ProcessModalClose ==
    /\ modal.opened
    /\ modal' = [modal EXCEPT !.opened = FALSE, !.actions = << >>]
    /\ UNCHANGED <<settings, pc, call, http, result, httpCalls, synthesis, vault,
                   notices, store, pluginVars>>

NextModal ==
    \/ ProcessModalOpen
    \/ ProcessModalRetry
    \/ ProcessModalSettle
    \/ ProcessModalSave
    \/ ProcessModalClose

\* the note of the clip may exist from an analysis before
InitModal ==
    /\ settings \in SynthesisSettingsSamples
    /\ pc = "idle"
    /\ call = NoCall
    /\ http = NoHttp
    /\ result = NoResult
    /\ httpCalls = 0
    /\ synthesis = NoSynthesis
    /\ vault \in {{}, {ModalNotePath}}
    /\ notices = << >>
    /\ modal = NoModal
    /\ store = StoreOf(settings)
    /\ wire = NoWire
    /\ plugin = NoPlugin
    /\ progress = NoProgress

SpecModal == InitModal /\ [][NextModal]_vars

(***************************************************************************)
(* The requests of the adapters: generateText and testApiKey of each       *)
(* adapter up to the call of requestUrl, over the messages and keys a      *)
(* caller may pass.                                                        *)
(***************************************************************************)
\* AIMessage values the calls are made with
MessageItems ==
    { Message("system", c) : c \in {"", "A", "B"} }
    \cup { Message(r, c) : r \in {"user", "assistant"}, c \in {"A", "B"} }

MessageSamples == UNION {[1..n -> MessageItems] : n \in 0..MaxMessages}

\* apiKey arguments: those of AdapterKeySamples and, for GLM, keys with an
\* empty id or secret, with a second delimiter, with a dot before a colon
RequestKeySamples(p) ==
    AdapterKeySamples(p) \cup
    IF p = "glm" THEN {<<":", "k">>, <<"k", ":">>, <<"k", ":", "k", ":", "k">>,
                       <<"k", ".", "k", ":", "k">>, <<" ", ":", " ">>}
    ELSE {}

AdapterGenerateTextRequest ==
    /\ pc = "idle"
    /\ \E p \in Providers, optModel \in OptModelSamples, messages \in MessageSamples :
         \E apiKey \in RequestKeySamples(p) :
            /\ wire' = GenerateTextRequest(p, messages, apiKey, optModel)
            /\ pc' = IF wire'.threw THEN "done" ELSE "awaiting"
    /\ UNCHANGED <<settings, call, http, result, httpCalls, synthesis, vault, notices,
                   store, modal, plugin, progress>>

AdapterTestApiKeyRequest ==
    /\ pc = "idle"
    /\ \E p \in Providers :
         \E apiKey \in RequestKeySamples(p) :
            /\ wire' = TestApiKeyRequest(p, apiKey)
            /\ pc' = IF wire'.threw THEN "done" ELSE "awaiting"
    /\ UNCHANGED <<settings, call, http, result, httpCalls, synthesis, vault, notices,
                   store, modal, plugin, progress>>

\* the call is over and the adapter is ready for the next one
RequestEnds ==
    /\ pc \in {"awaiting", "done"}
    /\ pc' = "idle"
    /\ wire' = NoWire
    /\ UNCHANGED <<settings, call, http, result, httpCalls, synthesis, vault, notices,
                   store, modal, plugin, progress>>

NextRequests ==
    \/ AdapterGenerateTextRequest
    \/ AdapterTestApiKeyRequest
    \/ RequestEnds

InitRequests ==
    /\ settings = DEFAULT_AI_SETTINGS
    /\ pc = "idle"
    /\ call = NoCall
    /\ http = NoHttp
    /\ result = NoResult
    /\ httpCalls = 0
    /\ ViewInit

SpecRequests == InitRequests /\ [][NextRequests]_vars

(***************************************************************************)
(* The gates of the plugin: addGate and removeGate after onload.           *)
(* removeGate suspends at unloadView; the saveSettings at the end of both  *)
(* is followed by nothing that changes the gates.                          *)
(***************************************************************************)
\* the gates ModalEditGate and the settings tab hand to addGate
GateSamples ==
    { GateFrameOption(id, url, title) :
        id \in GateIds \cup {""},
        url \in {"https://a.example", "https://b.example"},
        title \in {"", "Mail"} }

\* settings.gates as loadSettings finds them in the data file
LoadedGates ==
    { [id \in GateIds |-> IF id \in ids
                          THEN GateFrameOption(id, "https://a.example", "Mail")
                          ELSE NoGate] : ids \in SUBSET GateIds }

addGate ==
    /\ plugin.calls < MaxGateCalls
    /\ \E gate \in GateSamples :
         LET normalizedGate == normalizeGateOption(gate)
             known          == plugin.gates[normalizedGate.id] # NoGate
         IN  plugin' = [plugin EXCEPT
                 !.registered = IF known THEN @ ELSE registerGate(@, normalizedGate),
                 !.gates[normalizedGate.id] = normalizedGate,
                 !.saves = @ + 1,
                 !.calls = @ + 1,
                 !.last = [op |-> "addGate", id |-> normalizedGate.id,
                           gate |-> normalizedGate]]
    /\ UNCHANGED <<settings, pc, call, http, result, httpCalls, synthesis, vault,
                   notices, store, modal, wire, progress>>

\* removeGate(gateId) up to its await of unloadView
removeGate ==
    /\ plugin.calls < MaxGateCalls
    /\ \E gateId \in GateIds :
         plugin' = [plugin EXCEPT
             !.removing = IF plugin.gates[gateId] = NoGate THEN @ ELSE @ \cup {gateId},
             !.calls = @ + 1,
             !.last = [op |-> "removeGate", id |-> gateId, gate |-> plugin.gates[gateId]]]
    /\ UNCHANGED <<settings, pc, call, http, result, httpCalls, synthesis, vault,
                   notices, store, modal, wire, progress>>

\* removeGate after unloadView: the gate is deleted and the settings saved
removeGateDone ==
    /\ \E gateId \in plugin.removing :
         plugin' = [plugin EXCEPT !.removing = @ \ {gateId},
                                  !.gates[gateId] = NoGate,
                                  !.saves = @ + 1]
    /\ UNCHANGED <<settings, pc, call, http, result, httpCalls, synthesis, vault,
                   notices, store, modal, wire, progress>>

NextGates ==
    \/ addGate
    \/ removeGate
    \/ removeGateDone

InitGates ==
    /\ settings = DEFAULT_AI_SETTINGS
    /\ pc = "idle"
    /\ call = NoCall
    /\ http = NoHttp
    /\ result = NoResult
    /\ httpCalls = 0
    /\ synthesis = NoSynthesis
    /\ vault = {}
    /\ notices = << >>
    /\ modal = NoModal
    /\ store = StoreOf(settings)
    /\ wire = NoWire
    /\ progress = NoProgress
    /\ \E gates \in LoadedGates :
         plugin = [NoPlugin EXCEPT !.gates = gates, !.registered = initGates(gates)]

SpecGates == InitGates /\ [][NextGates]_vars

(***************************************************************************)
(* InlineProgress driven by show() and nextStep().                         *)
(***************************************************************************)
\* the steps createStepProgress is called with: pending steps
StepSamples ==
    { [i \in 1..n |-> ProgressStep(<<"step", i>>, "pending")] : n \in 1..MaxSteps }

\* show(): the element is created, with the bar and the steps
InlineProgressShow ==
    /\ ~progress.shown
    /\ progress' = [progress EXCEPT !.shown = TRUE, !.steps = renderSteps(@)]
    /\ UNCHANGED <<settings, pc, call, http, result, httpCalls, synthesis, vault,
                   notices, store, modal, wire, plugin>>

InlineProgressNextStep ==
    /\ progress.shown
    /\ progress.calls < MaxNextSteps
    /\ progress' = [nextStep(progress) EXCEPT !.calls = @ + 1]
    /\ UNCHANGED <<settings, pc, call, http, result, httpCalls, synthesis, vault,
                   notices, store, modal, wire, plugin>>

NextProgress ==
    \/ InlineProgressShow
    \/ InlineProgressNextStep

InitProgress ==
    /\ settings = DEFAULT_AI_SETTINGS
    /\ pc = "idle"
    /\ call = NoCall
    /\ http = NoHttp
    /\ result = NoResult
    /\ httpCalls = 0
    /\ synthesis = NoSynthesis
    /\ vault = {}
    /\ notices = << >>
    /\ modal = NoModal
    /\ store = StoreOf(settings)
    /\ wire = NoWire
    /\ plugin = NoPlugin
    /\ \E steps \in StepSamples, showBar \in BOOLEAN, compact \in BOOLEAN :
         progress = InlineProgress(steps, showBar, compact)

SpecProgress == InitProgress /\ [][NextProgress]_vars

(***************************************************************************)
(* Properties.                                                             *)
(***************************************************************************)
\* ErrorKind: unauthorized, rate_limited, timeout, no_response, unknown, in
\* the spelling the code gives its error codes.
ErrorKinds == {<<"UNAUTHORIZED">>, <<"RATE_LIMIT">>, <<"TIMEOUT">>, <<"NO_RESPONSE">>,
               <<"UNKNOWN">>}

GenerateOps == {"adapter.generateText", "service.generateText",
                "service.generateTextWithProvider"}

\* The container the dispatched generateText reads is missing or empty.
EmptyOrMissingContainer ==
    LET c == http.body[ContainerField(call.adapter, "generateText")]
    IN  ~c.present \/ Len(c.items) = 0

\* The vendor answered with HTTP status n: as the transport's Error
\* "Request failed, status n", or as a payload with a structured error.
SimulatedStatus(n, fragment) ==
    \/ /\ http.kind = "throw"
       /\ http.error = ErrorValue(<<"Request failed", fragment>>)
    \/ /\ http.kind = "json"
       /\ http.status = n
       /\ http.body.error.present

\* C1: every response of generateText (adapter or service) has success =>
\* content non-empty and error absent, and ~success => content = '' and
\* error present.
C1_ResponseShape ==
    (pc = "done" /\ call.op \in GenerateOps /\ result.kind = "response") =>
        LET r == result.response
        IN  /\ r.success => (r.content \notin {<< >>, undefined} /\ r.error = undefined)
            /\ ~r.success => (r.content = << >> /\ r.error # undefined)

\* C2: an empty or missing choices / candidates / content array gives
\* success = false with errorCode no_response, and nothing is thrown.
C2_EmptyContainerIsNoResponse ==
    (/\ pc = "done"
     /\ call.op = "adapter.generateText"
     /\ http.kind = "json"
     /\ ~http.body.isNull
     /\ ~http.body.error.present
     /\ EmptyOrMissingContainer) =>
        /\ result.kind = "response"
        /\ ~result.response.success
        /\ result.response.errorCode = <<"NO_RESPONSE">>

\* C3: a 401 from the vendor gives errorCode unauthorized and a 429 gives
\* rate_limited, whether it arrives as a thrown transport error or as a
\* vendor error payload.
C3_StatusIsClassified ==
    (pc = "done" /\ call.op = "adapter.generateText") =>
        /\ SimulatedStatus(401, "401") =>
               (result.kind = "response"
                /\ result.response.errorCode = <<"UNAUTHORIZED">>)
        /\ SimulatedStatus(429, "429") =>
               (result.kind = "response"
                /\ result.response.errorCode = <<"RATE_LIMIT">>)

\* C4: every failed response of an adapter carries an errorCode of the
\* closed set; a structured vendor error whose text matches none of the
\* patterns of the normalizer is reported as unknown.  Stated for the
\* failures that come from a structured vendor error.
C4_ErrorCodeInClosedSet ==
    (/\ pc = "done"
     /\ call.op = "adapter.generateText"
     /\ result.kind = "response"
     /\ ~result.response.success
     /\ http.kind = "json"
     /\ http.body.error.present) =>
        /\ result.response.errorCode \in ErrorKinds
        /\ (/\ http.body.error.message # undefined
            /\ handleError(StringValue(http.body.error.message)).errorCode = <<"UNKNOWN">>)
           => result.response.errorCode = <<"UNKNOWN">>

\* The credential stored for provider p is missing.
MissingKey(p) == settings.apiKeys[p] \in {undefined, << >>}

C6_CustomModelOnlyForActiveDefault ==
    /\ \A p \in Providers :
         LET m == getModelForProvider(settings, p)
         IN  /\ m # settings.models[p] =>
                   (settings.useCustomModel /\ settings.provider = p
                    /\ m = settings.customModel)
             /\ (settings.useCustomModel /\ settings.provider = p
                 /\ settings.customModel # "") => m = settings.customModel
             /\ ~(settings.useCustomModel /\ settings.provider = p) =>
                   m = settings.models[p]
    /\ (/\ call.op = "service.generateTextWithProvider"
        /\ call.adapter # "none"
        /\ call.optModel = ""
        /\ call.provider # settings.provider) =>
           call.model = settings.models[call.provider]

C6_Witness ==
    /\ pc = "awaiting"
    /\ call.op = "service.generateTextWithProvider"
    /\ call.provider = "claude"
    /\ call.optModel = ""
    /\ settings.provider = "openai"
    /\ settings.useCustomModel
    /\ settings.customModel = "gpt-x"
    /\ call.model = settings.models["claude"]
    /\ getModelForProvider(settings, "openai") = "gpt-x"

\* C7: generateTextWithProvider(p) validates and dispatches against p,
\* whatever the active default: with no credential for p it fails locally
\* without a call, with one it invokes the adapter of p with the
\* credential of p.
C7_TargetedDispatchUsesTarget ==
    (call.op = "service.generateTextWithProvider" /\ call.provider \in Providers) =>
        IF MissingKey(call.provider)
        THEN /\ pc = "done"
             /\ result.kind = "response"
             /\ ~result.response.success
             /\ call.adapter = "none"
             /\ httpCalls = 0
        ELSE /\ call.adapter = call.provider
             /\ call.apiKey = settings.apiKeys[call.provider]
             /\ call.credential = IF call.provider = "glm"
                                  THEN generateToken(settings.apiKeys["glm"]).token
                                  ELSE settings.apiKeys[call.provider]
             /\ (pc = "awaiting" => httpCalls = 1)

C7_Witness ==
    /\ pc = "awaiting"
    /\ call.op = "service.generateTextWithProvider"
    /\ call.provider = "claude"
    /\ call.adapter = "claude"
    /\ settings.provider = "openai"
    /\ MissingKey("openai")
    /\ httpCalls = 1

\* C8: generateText of an adapter and of the service never throws: every
\* call ends in a response, and a failure that stems from an exception
\* carries an errorCode of the closed set.
C8_NeverThrowsAlwaysClassifies ==
    (pc = "done" /\ call.op \in GenerateOps) =>
        /\ result.kind = "response"
        /\ (\/ http.kind = "throw"
            \/ (call.adapter # "none" /\ httpCalls = 0)) =>
               (~result.response.success /\ result.response.errorCode \in ErrorKinds)

\* The token derivation of GLM throws on the key of the call.
TokenThrows == call.adapter = "glm" /\ generateToken(call.apiKey).threw

AdapterOps == {"adapter.generateText", "adapter.testApiKey"}

\* C9: every generateText and testApiKey of an adapter issues exactly one
\* outbound HTTP call.
C9_ExactlyOneCall ==
    (pc = "done" /\ call.op \in AdapterOps) => httpCalls = 1

\* Supporting fact for C9: no operation ever issues a second call, and an
\* adapter operation issues none exactly when the token derivation of GLM
\* throws on the key.
AtMostOneCall ==
    /\ httpCalls <= 1
    /\ call.op \in AdapterOps => httpCalls = IF TokenThrows THEN 0 ELSE 1

C11_TestNeedsNonEmptyContainer ==
    (/\ pc = "done"
     /\ call.op = "adapter.testApiKey"
     /\ result.kind = "boolean"
     /\ result.ok) =>
        /\ http.kind = "json"
        /\ ~http.body.error.present
        /\ http.body[ContainerField(call.adapter, "testApiKey")].present
        /\ Len(http.body[ContainerField(call.adapter, "testApiKey")].items) > 0

(***************************************************************************)
(* Reading a rendered text back: the positions of its markers, its         *)
(* numbers, its blocks.                                                    *)
(***************************************************************************)
\* position of the first fragment equal to f, 0 if there is none
IndexOf(text, f) ==
    IF Includes(text, f) THEN CHOOSE i \in DOMAIN text :
                                  text[i] = f /\ \A j \in 1..(i - 1) : text[j] # f
    ELSE 0

\* the number written by a text of decimal digits, grouping commas skipped
RECURSIVE NumberOf(_)
NumberOf(d) ==
    IF d = << >> THEN 0
    ELSE LET last == d[Len(d)]
             rest == SubSeq(d, 1, Len(d) - 1)
         IN  IF last = "," THEN NumberOf(rest)
             ELSE 10 * NumberOf(rest) + (IndexOf(DigitChars, last) - 1)

IsNumberFragment(f) == f = "," \/ Includes(DigitChars, f)

\* the longest run of digit fragments that starts at position i
RECURSIVE NumberRun(_, _)
NumberRun(text, i) ==
    IF i > Len(text) \/ ~IsNumberFragment(text[i]) THEN << >>
    ELSE <<text[i]>> \o NumberRun(text, i + 1)

\* the number printed right after the first occurrence of marker
NumberAfter(text, marker) == NumberOf(NumberRun(text, IndexOf(text, marker) + 1))

\* the pieces of text between the occurrences of the fragment sep
RECURSIVE SplitOn(_, _)
SplitOn(text, sep) ==
    IF ~Includes(text, sep) THEN <<text>>
    ELSE LET i == IndexOf(text, sep)
         IN  <<SubSeq(text, 1, i - 1)>> \o SplitOn(SubSeq(text, i + 1, Len(text)), sep)

\* the source blocks of a user prompt: what stands between the line of
\* the sources header and the closing instruction, cut at the separators
PromptBlocks(prompt) ==
    LET from    == IndexOf(prompt, ") ===\n\n") + 1
        to      == IndexOf(prompt, ClosingHeader) - 2
        section == SubSeq(prompt, from, to)
    IN  IF section = << >> THEN << >> ELSE SplitOn(section, BlockSeparator[1])

\* the instruction of a user prompt: what stands before the sources header
PromptInstruction(prompt) == SubSeq(prompt, 1, IndexOf(prompt, SourcesHeader) - 2)

\* the sum of the charCount of the sources
SumOfCharCounts(sources) ==
    LET RECURSIVE upTo(_)
        upTo(n) == IF n = 0 THEN 0 ELSE upTo(n - 1) + sources[n].metadata.charCount
    IN  upTo(Len(sources))

\* a synthesis run is under way or has just ended
SynthesisRunning == pc # "idle" /\ synthesis # NoSynthesis

\* C12: a synthesis run with an empty sources sequence fails locally: it
\* reports an error, makes no vendor call and saves no document.
C12_EmptySourcesFailLocally ==
    (SynthesisRunning /\ synthesis.request.sources = << >>) =>
        /\ pc = "done"
        /\ httpCalls = 0
        /\ notices # << >>
        /\ synthesis.saves = 0

\* C13: the user prompt of a request with N sources holds exactly N source
\* blocks in input order, block i labelled i and carrying the title and the
\* content of source i, and the header and the closing instruction both
\* name N.
C13_PromptHasSourceBlocksInOrder ==
    (SynthesisRunning /\ synthesis.userPrompt # << >>) =>
        LET prompt  == synthesis.userPrompt
            sources == synthesis.request.sources
            blocks  == PromptBlocks(prompt)
        IN  /\ Len(blocks) = Len(sources)
            /\ \A i \in DOMAIN blocks :
                  /\ blocks[i][1] = "[source "
                  /\ NumberAfter(blocks[i], "[source ") = i
                  /\ blocks[i][IndexOf(blocks[i], "] ") + 1] = sources[i].title
                  /\ blocks[i][IndexOf(blocks[i], "\n\ncontent:\n") + 1] = sources[i].content
            /\ NumberAfter(prompt, SourcesHeader) = Len(sources)
            /\ NumberAfter(prompt, ClosingHeader) = Len(sources)

C13_Witness ==
    /\ pc = "awaiting"
    /\ Len(synthesis.request.sources) = 2
    /\ synthesis.request.sources[1].title = "Note B"
    /\ synthesis.request.sources[2].title = "Page A"
    /\ Len(PromptBlocks(synthesis.userPrompt)) = 2

\* C14: in the saved document the total-chars field and the overview line
\* both give the sum of the charCount of the sources, and sources-count
\* gives the number of sources.
C14_DocumentTotalsAreSums ==
    (SynthesisRunning /\ synthesis.saves > 0) =>
        LET doc     == synthesis.document
            sources == synthesis.request.sources
        IN  /\ NumberAfter(doc, TotalCharsField) = SumOfCharCounts(sources)
            /\ NumberAfter(doc, TotalCharsOverview) = SumOfCharCounts(sources)
            /\ NumberAfter(doc, SourcesCountField) = Len(sources)

C14_Witness ==
    /\ pc = "done"
    /\ synthesis.saves = 1
    /\ Len(synthesis.request.sources) = 2
    /\ SumOfCharCounts(synthesis.request.sources) = 1300
    /\ Includes(synthesis.document, ",")

\* C15: the vendor call of a synthesis run carries the credential of the
\* active provider and the model getModelForProvider resolves for it.
C15_SynthesisUsesResolvedModel ==
    (SynthesisRunning /\ httpCalls > 0) =>
        /\ synthesis.provider = settings.provider
        /\ synthesis.credential = settings.apiKeys[settings.provider]
        /\ synthesis.model = getModelForProvider(settings, settings.provider)

\* C16: a synthesis run makes at most one vendor call; a failed call ends
\* the run with an error report and no saved document; a document is saved
\* exactly once when and only when the call gave a non-empty result; the
\* run never passes an exception on.
C16_SynthesisAllOrNothing ==
    SynthesisRunning =>
        /\ httpCalls <= 1
        /\ ~synthesis.threw
        /\ pc = "done" =>
              /\ synthesis.text = << >> => (notices # << >> /\ synthesis.saves = 0)
              /\ synthesis.text # << >> => synthesis.saves = 1
        /\ synthesis.saves <= 1
        /\ synthesis.saves = 1 => synthesis.text # << >>

\* C19: for one thrown transport error every adapter's generateText gives
\* the same response, and the synthesis run reports that failure as the
\* error normalizer classifies it.
C19_NormalizerIsShared ==
    (SynthesisRunning /\ pc = "done" /\ http.kind = "throw") =>
        /\ \A p, q \in Providers :
              AdapterGenerateText(p, http) = AdapterGenerateText(q, http)
        /\ notices = << <<"Multi-source analysis error: ">>
                        \o handleError(http.error).error >>

\* C20: the instruction of the user prompt is customPrompt followed by the
\* instruction of the analysis type when customPrompt is present, the
\* instruction of the type alone when it is absent, and the part of the
\* type is empty for the type custom.
C20_CustomPromptIsPrepended ==
    (SynthesisRunning /\ synthesis.userPrompt # << >>) =>
        LET request     == synthesis.request
            instruction == PromptInstruction(synthesis.userPrompt)
            ofType      == analysisTypePrompts[request.analysisType]
        IN  /\ request.customPrompt \notin {undefined, << >>} =>
                  instruction = request.customPrompt \o <<"\n\n">> \o ofType
            /\ request.customPrompt \in {undefined, << >>} => instruction = ofType
            /\ request.analysisType = "custom" => ofType = << >>

C20_Witness ==
    /\ pc = "awaiting"
    /\ synthesis.request.customPrompt = <<"Focus on cost.">>
    /\ synthesis.request.analysisType = "comparison"
    /\ Len(PromptInstruction(synthesis.userPrompt)) = 3

\* C17: a generate request takes its adapter, credential and model from
\* one settings state and keeps them while it is in flight, and a settings
\* update never changes the object the service is reading: the service
\* sees other settings only by being handed another object.
C17_RequestReadsOneSnapshot ==
    [][/\ (pc = "idle" /\ pc' = "awaiting" /\ call'.op = "service.generateText") =>
              /\ call'.adapter = settings.provider
              /\ call'.apiKey = settings.apiKeys[settings.provider]
              /\ call'.model = IF call'.optModel # "" THEN call'.optModel
                               ELSE getModelForProvider(settings, settings.provider)
       /\ (pc = "awaiting" /\ pc' = "awaiting") => call' = call
       /\ store'.objects[store.service] = store.objects[store.service]
      ]_vars

\* Supporting fact for C17: the part about the request holds on its own.
RequestKeepsWhatItRead ==
    [][/\ (pc = "idle" /\ pc' = "awaiting" /\ call'.op = "service.generateText") =>
              /\ call'.adapter = settings.provider
              /\ call'.apiKey = settings.apiKeys[settings.provider]
              /\ call'.model = IF call'.optModel # "" THEN call'.optModel
                               ELSE getModelForProvider(settings, settings.provider)
       /\ (pc = "awaiting" /\ pc' = "awaiting") => call' = call
      ]_vars

\* C18: no two vendor calls of one logical request are in flight together:
\* a ProcessModal analysis, its retries included, and a synthesis run
\* start a vendor call only after the previous one has settled.
C18_OneVendorCallInFlight ==
    /\ modal.inFlight <= 1
    /\ SynthesisRunning => httpCalls <= 1

\* C21: a saved synthesis document has its sections in the order analysis-type
\* label, reference list of the sources, total character count, synthesized
\* body.
C21_DocumentSectionsInOrder ==
    (SynthesisRunning /\ synthesis.saves > 0) =>
        LET doc == synthesis.document
        IN  /\ IndexOf(doc, "---\ntype: multi-source-analysis\nanalysis-type: ")
                 < IndexOf(doc, SourcesUsedHeader)
            /\ IndexOf(doc, SourcesUsedHeader) < IndexOf(doc, TotalCharsField)
            /\ IndexOf(doc, TotalCharsField) < IndexOf(doc, ResultHeader)

\* the entries of the reference list of a saved document: the lines between
\* the heading of the sources section and the closing rule
ReferenceEntries(doc) ==
    LET section == SubSeq(doc, IndexOf(doc, SourcesUsedHeader) + 1, Len(doc) - 1)
    IN  IF section = << >> THEN << >> ELSE SplitOn(section, "\n")

\* C22: the reference list of a saved document has one entry per source, in
\* input order: a link to the url when the source has one, else a link to the
\* file when it has a filePath, else the plain title.
C22_ReferenceListFollowsSources ==
    (SynthesisRunning /\ synthesis.saves > 0) =>
        LET sources == synthesis.request.sources
            entries == ReferenceEntries(synthesis.document)
        IN  /\ Len(entries) = Len(sources)
            /\ \A i \in DOMAIN sources :
                 LET s == sources[i]
                     e == entries[i]
                 IN  /\ Includes(e, s.title)
                     /\ s.metadata.url # "" =>
                            /\ Includes(e, s.metadata.url)
                            /\ Includes(e, "](")
                            /\ ~Includes(e, "[[")
                     /\ (s.metadata.url = "" /\ s.metadata.filePath # "") =>
                            /\ Includes(e, s.metadata.filePath)
                            /\ Includes(e, "- [[")
                            /\ ~Includes(e, "](")
                     /\ (s.metadata.url = "" /\ s.metadata.filePath = "") =>
                            e = <<"- ", s.title>>

C22_Witness ==
    /\ pc = "done"
    /\ synthesis.saves = 1
    /\ Len(synthesis.request.sources) = 2
    /\ synthesis.request.sources[1].title = "Memo C"
    /\ synthesis.request.sources[2].title = "Page A"
    /\ ReferenceEntries(synthesis.document)[2]
         = <<"- [", "Page A", "](", "https://a.example", ")">>

\* the text of the value requestUrl threw: the message of an Error, a thrown
\* string itself, nothing for any other value
ThrownText == IF http.error.type \in {"Error", "string"} THEN http.error.message ELSE << >>

\* C23: handleError answers every thrown value with success = false and
\* content '', and with exactly one code, the first that matches: 401 or
\* Unauthorized gives UNAUTHORIZED, else 429 or rate limit gives RATE_LIMIT,
\* else timeout or ETIMEDOUT gives TIMEOUT, anything else (a value that is
\* neither an Error nor a string included) gives UNKNOWN.
C23_HandleErrorFirstMatch ==
    (pc = "done" /\ call.op = "adapter.generateText" /\ http.kind = "throw") =>
        /\ result.kind = "response"
        /\ ~result.response.success
        /\ result.response.content = << >>
        /\ LET has(f) == Includes(ThrownText, f)
           IN  result.response.errorCode =
                   CASE has("401") \/ has("Unauthorized") -> <<"UNAUTHORIZED">>
                     [] ~(has("401") \/ has("Unauthorized"))
                        /\ (has("429") \/ has("rate limit")) -> <<"RATE_LIMIT">>
                     [] ~(has("401") \/ has("Unauthorized"))
                        /\ ~(has("429") \/ has("rate limit"))
                        /\ (has("timeout") \/ has("ETIMEDOUT")) -> <<"TIMEOUT">>
                     [] OTHER -> <<"UNKNOWN">>

C23_Witness ==
    /\ pc = "done"
    /\ call.op = "adapter.generateText"
    /\ call.adapter = "claude"
    /\ http.kind = "throw"
    /\ http.error = StringValue(<<"429", "Unauthorized">>)
    /\ result.response.errorCode = <<"UNAUTHORIZED">>

\* the system text a request carries: '' when the body has no system field
SystemTextSent == IF wire.system.present THEN wire.system.text ELSE ""

\* C24: generateText of the Claude and Gemini adapters sends no message of
\* role system: the other messages keep their order and number (Gemini sends
\* assistant as model and every other role as user), and the system text
\* goes into the top-level field, which is left out when the call has no
\* system message and carries the text of the last one when it has several.
C24_SystemMessageIsHoisted ==
    (wire.op = "adapter.generateText" /\ wire.adapter \in {"claude", "gemini"}) =>
        LET IsSystem(m)  == m.role = "system"
            NotSystem(m) == m.role # "system"
            systems      == SelectSeq(wire.given, IsSystem)
            others       == SelectSeq(wire.given, NotSystem)
            WireRole(r)  == IF wire.adapter = "claude" THEN r
                            ELSE IF r = "assistant" THEN "model" ELSE "user"
        IN  /\ Len(wire.messages) = Len(others)
            /\ \A i \in DOMAIN others :
                 /\ wire.messages[i].content = others[i].content
                 /\ wire.messages[i].role = WireRole(others[i].role)
            /\ \A i \in DOMAIN wire.messages : wire.messages[i].role # "system"
            /\ systems = << >> => ~wire.system.present
            /\ SystemTextSent = IF systems = << >> THEN ""
                                ELSE systems[Len(systems)].content

C24_Witness ==
    /\ wire.op = "adapter.generateText"
    /\ wire.adapter = "claude"
    /\ wire.given = <<Message("system", "A"), Message("assistant", "B"),
                      Message("system", "B")>>
    /\ wire.messages = <<Message("assistant", "B")>>
    /\ wire.system = [present |-> TRUE, text |-> "B"]

\* the key of the request has the form id:secret with both parts non-empty
\* and no dot
CompoundKey ==
    /\ ~Includes(wire.apiKey, ".")
    /\ Includes(wire.apiKey, ":")
    /\ IndexOf(wire.apiKey, ":") > 1
    /\ IndexOf(wire.apiKey, ":") < Len(wire.apiKey)
    /\ wire.apiKey[IndexOf(wire.apiKey, ":") + 1] # ":"

C26_AdapterOnlyWhenConfigured ==
    (/\ call.op \in {"service.generateText", "service.generateTextWithProvider"}
     /\ call.adapter # "none") =>
        isProviderConfigured(settings, call.adapter)

\* a run of startProcessing has ended and no call of the modal is pending
ModalRunEnded == modal.state \in {"completed", "error"} /\ modal.inFlight = 0

\* C27: ProcessModal is completed, with the copy and save buttons, only
\* when the response of generateTextWithProvider has success = true; on a
\* response with success = false it is in state error, shows the error text
\* of the response and offers retry.
C27_CompletedOnlyOnSuccess ==
    (modal.started > 0 /\ result.kind = "response") =>
        /\ modal.state = "completed" => result.response.success
        /\ (ModalRunEnded /\ ~result.response.success) =>
               /\ modal.state = "error"
               /\ modal.errorMessage = result.response.error
               /\ modal.opened => "retry" \in modal.actions[Len(modal.actions)]

\* C28: the states of ProcessModal.  A run goes from preparing over
\* processing to completed or error; completed is never left; error is left
\* only by the retry action, which starts a new run with resultContent and
\* errorMessage empty; saveAsNote calls onSave only with a result, and closes
\* the modal only when onSave has returned the file it created.
C28_ModalStateMachine ==
    [][ /\ modal.state = "completed" => modal'.state = "completed"
        /\ modal.state = "processing" => modal'.state \in {"processing", "completed", "error"}
        /\ (modal.state = "error" /\ modal'.state # "error") =>
               /\ modal'.started = modal.started + 1
               /\ modal'.state = "processing" =>
                      (modal'.resultContent = << >> /\ modal'.errorMessage = << >>)
        /\ modal'.saves > modal.saves =>
               /\ modal.resultContent \notin {<< >>, undefined}
               /\ (modal.opened /\ ~modal'.opened) => ModalNotePath \in vault' \ vault
      ]_vars

\* C29: in one plugin session registerGate runs at most once for a gate id;
\* addGate leaves settings.gates[id] equal to the normalized gate; removeGate
\* of an id that is not in settings.gates changes no gate and does not save.
C29_GateRegisteredOnce ==
    [][ /\ \A id \in GateIds : plugin'.registered[id] <= 1
        /\ (plugin'.calls > plugin.calls /\ plugin'.last.op = "addGate") =>
               plugin'.gates[plugin'.last.id] = plugin'.last.gate
        /\ (/\ plugin'.calls > plugin.calls
            /\ plugin'.last.op = "removeGate"
            /\ plugin.gates[plugin'.last.id] = NoGate) =>
               (plugin'.gates = plugin.gates /\ plugin'.saves = plugin.saves)
      ]_vars

AllCompleted(steps) == \A i \in DOMAIN steps : steps[i].status = "completed"

\* C30: an InlineProgress driven by show() and then nextStep() has at most
\* one active step; a completed step stays completed; the percentage is a
\* number from 0 to 100 that never decreases; once all steps are completed
\* nextStep() leaves them completed, at 100.
C30_ProgressIsMonotonic ==
    [][ LET old == progress
            new == progress'
        IN  new.shown =>
            /\ Cardinality({i \in DOMAIN new.steps : new.steps[i].status = "active"}) <= 1
            /\ \A i \in DOMAIN old.steps :
                 old.steps[i].status = "completed" => new.steps[i].status = "completed"
            /\ ~new.currentProgress.nan
            /\ new.currentProgress.num >= 0
            /\ new.currentProgress.num <= 100 * new.currentProgress.den
            /\ ~old.currentProgress.nan =>
                   new.currentProgress.num * old.currentProgress.den
                       >= old.currentProgress.num * new.currentProgress.den
            /\ (old.shown /\ old.steps # << >> /\ AllCompleted(old.steps)) =>
                   /\ AllCompleted(new.steps)
                   /\ new.currentProgress.num = 100 * new.currentProgress.den
      ]_vars

====
